---- MODULE Spec2Model ----
\* AgentDB core (src/src/agentdb/core.py): the file/symbol store kept by
\* ingest and patch, and the unified-diff patch engine.
\*
\* Texts are sequences of symbols.  A symbol is a single character ("\n", " ",
\* "-", "+", "@", "/", ".", a digit, a letter) or an opaque word standing for a
\* run of characters that holds no line break and does not begin with a
\* character the diff engine or the AGTAG splitter looks at.
EXTENDS Integers, Sequences, FiniteSets, TLC

VARIABLES
    db,        \* committed rows of .agentdb/agent.sqlite
    disk,      \* working tree: path -> text of the file
    pc,        \* "idle", or the commit point an ingest/patch has reached
    call,      \* the operation in flight or last run, with its arguments
    pre,       \* db and disk as they were when that operation started
    result,    \* what the last operation printed
    returned,  \* <<path, hash>> pairs successful operations have returned
    calls,     \* number of operations started so far
    dIn,       \* patch engine: (original, diff_text, repo_path) under test
    dOut,      \* patch engine: outcome of apply_unified_diff_to_text
    dRun,      \* patch engine: the loops of one application, line by line
    pIn,       \* metadata parser: the block, or the JSON value, under test
    pOut,      \* metadata parser: outcome of parse_agtag_block / check_json_depth
    fIn,       \* focus: the rows, their order and the query under test
    fOut,      \* focus: outcome of FocusGraph.get_context
    mdb,       \* migrate: the store's schema state and the backup copies made
    mrun,      \* migrate: the migrate command in flight or last run
    odb,       \* ensure_db: the database file a reading command found and left
    bulk       \* ingest --directory: the files found and the run's progress

vars == <<db, disk, pc, call, pre, result, returned, calls, dIn, dOut, dRun, pIn, pOut, fIn, fOut,
         mdb, mrun, odb, bulk>>
storeVars == <<db, disk, pc, call, pre, result, returned, calls>>
diffVars == <<dIn, dOut, dRun>>
parseVars == <<pIn, pOut>>
focusVars == <<fIn, fOut>>
migrateVars == <<mdb, mrun, odb>>
bulkVars == <<bulk>>

\* no reading command has opened the database
NoOpenRun == [cmd |-> "none"]

-----------------------------------------------------------------------------
\* Python string primitives, over symbol sequences

NL == "\n"
CR == "\r"
TAB == "\t"
SP == " "

Min(a, b) == IF a < b THEN a ELSE b

\* s.startswith(p)
StartsWith(s, p) == Len(s) >= Len(p) /\ SubSeq(s, 1, Len(p)) = p

\* s.endswith(p)
EndsWith(s, p) == Len(s) >= Len(p) /\ SubSeq(s, Len(s) - Len(p) + 1, Len(s)) = p

\* s[a:b] for 0 <= a, 0 <= b (Python clamps b to len(s))
Slice(s, a, b) == SubSeq(s, a + 1, Min(b, Len(s)))

\* s[a:]
SliceFrom(s, a) == SubSeq(s, a + 1, Len(s))

\* position of the first line break of t at or after i, Len(t) + 1 if none
LineEnd(t, i) ==
    LET breaks == {k \in i..Len(t) : t[k] \in {NL, CR}}
    IN IF breaks = {} THEN Len(t) + 1 ELSE CHOOSE k \in breaks : \A m \in breaks : k <= m

\* the lines of t from position i on, "\r\n" counting as one break
RECURSIVE SplitFrom(_, _)
SplitFrom(t, i) ==
    IF i > Len(t) THEN <<>>
    ELSE LET j == LineEnd(t, i)
             next == IF j < Len(t) /\ t[j] = CR /\ t[j + 1] = NL THEN j + 2 ELSE j + 1
         IN <<SubSeq(t, i, j - 1)>> \o SplitFrom(t, next)

\* str.splitlines(): break at "\n", "\r" and "\r\n"; no empty last line
splitlines(t) == SplitFrom(t, 1)

RECURSIVE JoinFrom(_, _, _)
JoinFrom(ls, sep, i) ==
    IF i > Len(ls) THEN <<>>
    ELSE IF i = Len(ls) THEN ls[i]
    ELSE ls[i] \o sep \o JoinFrom(ls, sep, i + 1)

\* sep.join(ls)
Join(sep, ls) == JoinFrom(ls, sep, 1)

RECURSIVE RStripSet(_, _)
RStripSet(s, cs) ==
    IF s # <<>> /\ s[Len(s)] \in cs THEN RStripSet(SubSeq(s, 1, Len(s) - 1), cs) ELSE s

RECURSIVE LStripSet(_, _)
LStripSet(s, cs) ==
    IF s # <<>> /\ s[1] \in cs THEN LStripSet(Tail(s), cs) ELSE s

Whitespace == {SP, TAB, NL, CR}

\* s.strip()
Strip(s) == LStripSet(RStripSet(s, Whitespace), Whitespace)

RECURSIVE SplitOn(_, _, _, _, _)
SplitOn(s, sep, i, cur, acc) ==
    IF i > Len(s) THEN Append(acc, cur)
    ELSE IF s[i] = sep THEN SplitOn(s, sep, i + 1, <<>>, Append(acc, cur))
    ELSE SplitOn(s, sep, i + 1, Append(cur, s[i]), acc)

\* s.split(sep) for a one-character separator
Split(s, sep) == SplitOn(s, sep, 1, <<>>, <<>>)

-----------------------------------------------------------------------------
\* os.path.normpath (posixpath)

RECURSIVE NormComps(_, _, _, _)
NormComps(comps, i, rooted, acc) ==
    IF i > Len(comps) THEN acc
    ELSE LET c == comps[i] IN
         IF c = <<>> \/ c = <<".">> THEN NormComps(comps, i + 1, rooted, acc)
         ELSE IF c # <<".", ".">>
                 \/ (~rooted /\ acc = <<>>)
                 \/ (acc # <<>> /\ acc[Len(acc)] = <<".", ".">>)
              THEN NormComps(comps, i + 1, rooted, Append(acc, c))
         ELSE IF acc # <<>>
              THEN NormComps(comps, i + 1, rooted, SubSeq(acc, 1, Len(acc) - 1))
         ELSE NormComps(comps, i + 1, rooted, acc)

normpath(path) ==
    IF path = <<>> THEN <<".">>
    ELSE LET slashes == IF ~StartsWith(path, <<"/">>) THEN 0
                        ELSE IF StartsWith(path, <<"/", "/">>) /\ ~StartsWith(path, <<"/", "/", "/">>)
                             THEN 2 ELSE 1
             comps == NormComps(Split(path, "/"), 1, slashes > 0, <<>>)
             body == Join(<<"/">>, comps)
             full == (IF slashes = 2 THEN <<"/", "/">> ELSE IF slashes = 1 THEN <<"/">> ELSE <<>>) \o body
         IN IF full = <<>> THEN <<".">> ELSE full

\* os.path.abspath(".") of the process: the repository root
Cwd == <<"/", "r", "e", "p", "o">>

\* os.path.abspath(path)
abspath(path) == IF StartsWith(path, <<"/">>) THEN normpath(path) ELSE normpath(Cwd \o <<"/">> \o path)

\* a check of the path as given, without normalizing it first
ensure_repo_relative_path_as_given(path) ==
    IF StartsWith(path, <<"/">>) THEN [ok |-> FALSE, error |-> "Absolute paths are not allowed"]
    ELSE IF StartsWith(path, <<".", ".">>) THEN [ok |-> FALSE, error |-> "Path must stay within repository"]
    ELSE [ok |-> TRUE, path |-> path]

\* ensure_repo_relative_path: the normalized path, or the ValueError
ensure_repo_relative_path(path) ==
    IF StartsWith(normpath(path), <<"/">>)
    THEN [ok |-> FALSE, error |-> "Absolute paths are not allowed"]
    ELSE IF StartsWith(normpath(path), <<".", ".">>)
    THEN [ok |-> FALSE, error |-> "Path must stay within repository"]
    ELSE IF ~StartsWith(abspath(normpath(path)), Cwd \o <<"/">>) /\ abspath(normpath(path)) # Cwd
    THEN [ok |-> FALSE, error |-> "Path escapes repository root"]
    ELSE [ok |-> TRUE, path |-> normpath(path)]

-----------------------------------------------------------------------------
\* apply_unified_diff_to_text

Digits == {"0", "1", "2", "3", "4", "5", "6", "7", "8", "9"}

DigitVal(d) ==
    CASE d = "0" -> 0 [] d = "1" -> 1 [] d = "2" -> 2 [] d = "3" -> 3 [] d = "4" -> 4
      [] d = "5" -> 5 [] d = "6" -> 6 [] d = "7" -> 7 [] d = "8" -> 8 [] d = "9" -> 9

\* number of leading digits of s from position i (the regex group \d+)
RECURSIVE DigitRun(_, _)
DigitRun(s, i) == IF i <= Len(s) /\ s[i] \in Digits THEN 1 + DigitRun(s, i + 1) ELSE 0

RECURSIVE IntOf(_, _, _)
IntOf(s, i, n) == IF n = 0 THEN 0 ELSE IntOf(s, i, n - 1) * 10 + DigitVal(s[i + n - 1])

NoMatch == [ok |-> FALSE]

\* one "(\d+)(?:,(\d+))?" of the hunk-header pattern, matched at position i:
\* the start, the optional count (default 1 in the unified format), the next position
RangeAt(s, i) ==
    LET n == DigitRun(s, i) IN
    IF n = 0 THEN NoMatch
    ELSE LET j == i + n
             m == IF j <= Len(s) /\ s[j] = "," THEN DigitRun(s, j + 1) ELSE 0
         IN [ok |-> TRUE, start |-> IntOf(s, i, n),
             count |-> IF m > 0 THEN IntOf(s, j + 1, m) ELSE 1,
             next |-> IF m > 0 THEN j + 1 + m ELSE j]

\* re.match(r"@@ -(\d+)(?:,(\d+))? \+(\d+)(?:,(\d+))? @@", hunk_header)
HunkHeaderMatch(h) ==
    IF ~StartsWith(h, <<"@", "@", SP, "-">>) THEN NoMatch
    ELSE LET a == RangeAt(h, 5) IN
         IF ~a.ok THEN NoMatch
         ELSE IF ~StartsWith(SliceFrom(h, a.next - 1), <<SP, "+">>) THEN NoMatch
         ELSE LET b == RangeAt(h, a.next + 2) IN
              IF ~b.ok THEN NoMatch
              ELSE IF ~StartsWith(SliceFrom(h, b.next - 1), <<SP, "@", "@">>) THEN NoMatch
              ELSE [ok |-> TRUE, a_start |-> a.start, a_len |-> a.count,
                    b_start |-> b.start, b_len |-> b.count]

\* line[4:].strip().split("\t")[0]
HeaderName(line) == Split(Strip(SliceFrom(line, 4)), TAB)[1]

normalize_header(header) ==
    normpath(IF StartsWith(header, <<"a", "/">>) \/ StartsWith(header, <<"b", "/">>)
             THEN SliceFrom(header, 2) ELSE header)

OldHeader == <<"-", "-", "-", SP>>
NewHeader == <<"+", "+", "+", SP>>
HunkMark == <<"@", "@", SP>>
NoNewlineMark == <<"\\", SP, "No newline at end of file">>

Fail(kind) == [ok |-> FALSE, error |-> kind]
Done(text) == [ok |-> TRUE, text |-> text]

\* after the while loop: copy the rest, require a hunk, restore the newline
DiffFinish(original, original_lines, st) ==
    LET patched_lines == st.patched \o SliceFrom(original_lines, st.idx)
        joined == Join(<<NL>>, patched_lines)
    IN IF ~st.applied_hunk THEN Fail("no_hunks")
       ELSE IF EndsWith(original, <<NL>>) /\ ~EndsWith(joined, <<NL>>)
            THEN Done(joined \o <<NL>>)
       ELSE Done(joined)

RECURSIVE DiffLoop(_, _, _, _, _)
RECURSIVE HunkBody(_, _, _, _, _)

\* the outer while loop; st = [i, idx, patched, current_file, applied_hunk],
\* i and idx 0-based as in the source
DiffLoop(original, original_lines, diff_lines, repo_path, st) ==
    IF st.i >= Len(diff_lines) THEN DiffFinish(original, original_lines, st)
    ELSE LET line == diff_lines[st.i + 1] IN
         IF StartsWith(line, OldHeader)
         THEN DiffLoop(original, original_lines, diff_lines, repo_path,
                       [st EXCEPT !.i = @ + 1, !.current_file = TRUE])
         ELSE IF StartsWith(line, NewHeader)
         THEN IF ~st.current_file THEN Fail("missing_original_header")
              ELSE IF normalize_header(HeaderName(line)) # normpath(repo_path)
                   THEN Fail("target_mismatch")
              ELSE DiffLoop(original, original_lines, diff_lines, repo_path,
                            [st EXCEPT !.i = @ + 1])
         ELSE IF StartsWith(line, HunkMark)
         THEN LET m == HunkHeaderMatch(line) IN
              IF ~m.ok THEN Fail("malformed_hunk_header")
              ELSE LET desired_idx == m.a_start - 1 IN
                   IF desired_idx < st.idx THEN Fail("overlapping_hunks")
                   ELSE HunkBody(original, original_lines, diff_lines, repo_path,
                                 [st EXCEPT !.i = @ + 1, !.idx = desired_idx,
                                            !.applied_hunk = TRUE,
                                            !.patched = @ \o Slice(original_lines, st.idx, desired_idx)])
         ELSE DiffLoop(original, original_lines, diff_lines, repo_path,
                       [st EXCEPT !.i = @ + 1])

\* the inner while loop over the body of one hunk
HunkBody(original, original_lines, diff_lines, repo_path, st) ==
    IF st.i >= Len(diff_lines)
    THEN DiffLoop(original, original_lines, diff_lines, repo_path, st)
    ELSE LET hunk_line == diff_lines[st.i + 1]
             expected == SliceFrom(hunk_line, 1)
             at_cursor == st.idx < Len(original_lines) /\ original_lines[st.idx + 1] = expected
         IN
         IF StartsWith(hunk_line, HunkMark) \/ StartsWith(hunk_line, OldHeader)
                \/ StartsWith(hunk_line, NewHeader)
         THEN DiffLoop(original, original_lines, diff_lines, repo_path, st)
         ELSE IF StartsWith(hunk_line, NoNewlineMark)
         THEN HunkBody(original, original_lines, diff_lines, repo_path,
                       [st EXCEPT !.i = @ + 1])
         ELSE IF StartsWith(hunk_line, <<SP>>)
         THEN IF ~at_cursor THEN Fail("context_mismatch")
              ELSE HunkBody(original, original_lines, diff_lines, repo_path,
                            [st EXCEPT !.i = @ + 1, !.idx = @ + 1,
                                       !.patched = Append(@, expected)])
         ELSE IF StartsWith(hunk_line, <<"-">>)
         THEN IF ~at_cursor THEN Fail("deletion_mismatch")
              ELSE HunkBody(original, original_lines, diff_lines, repo_path,
                            [st EXCEPT !.i = @ + 1, !.idx = @ + 1])
         ELSE IF StartsWith(hunk_line, <<"+">>)
         THEN HunkBody(original, original_lines, diff_lines, repo_path,
                       [st EXCEPT !.i = @ + 1, !.patched = Append(@, expected)])
         ELSE Fail("unsupported_diff_line")

apply_unified_diff_to_text(original, diff_text, repo_path) ==
    DiffLoop(original, splitlines(original), splitlines(diff_text), repo_path,
             [i |-> 0, idx |-> 0, patched |-> <<>>, current_file |-> FALSE,
              applied_hunk |-> FALSE])

-----------------------------------------------------------------------------
\* The same loops taken one diff line at a time. A run holds the locals of
\* apply_unified_diff_to_text between two iterations: at says which loop is
\* next ("outer", "hunk") or that the function is over ("done"); trace,
\* hunks, removed and added record what the run did: every value the cursor
\* idx took, the hunk headers matched (old-file start, 0-based index of the
\* header in diff_lines), the original indices consumed by deletion lines,
\* and the addition lines with the cursor they were added at.

NoDiffRun == [at |-> "none"]
NoDiffOut == [ok |-> FALSE, error |-> "running"]

diff_enter(original, diff_text) ==
    [at |-> "outer", original |-> original,
     original_lines |-> splitlines(original), diff_lines |-> splitlines(diff_text),
     st |-> [i |-> 0, idx |-> 0, patched |-> <<>>, current_file |-> FALSE,
             applied_hunk |-> FALSE],
     out |-> NoDiffOut, trace |-> <<0>>, hunks |-> <<>>, removed |-> {}, added |-> <<>>]

diff_raise(run, kind) == [run EXCEPT !.at = "done", !.out = Fail(kind)]

\* a hunk header that lets an earlier start through
hunk_start_any_position(run, a_start) ==
    LET desired_idx == IF a_start - 1 < 0 THEN 0 ELSE a_start - 1
        seen == [run EXCEPT !.hunks = Append(@, [a_start |-> a_start, header |-> run.st.i])]
    IN [seen EXCEPT !.at = "hunk", !.st.i = @ + 1, !.st.idx = desired_idx,
                    !.st.applied_hunk = TRUE,
                    !.st.patched = @ \o Slice(run.original_lines, run.st.idx, desired_idx),
                    !.trace = Append(@, desired_idx)]

\* a matched hunk header: the overlap test, then the copy up to the hunk
hunk_start(run, a_start) ==
    LET desired_idx == a_start - 1
        seen == [run EXCEPT !.hunks = Append(@, [a_start |-> a_start, header |-> run.st.i])]
    IN IF desired_idx < run.st.idx THEN diff_raise(seen, "overlapping_hunks")
       ELSE [seen EXCEPT !.at = "hunk", !.st.i = @ + 1, !.st.idx = desired_idx,
                         !.st.applied_hunk = TRUE,
                         !.st.patched = @ \o Slice(run.original_lines, run.st.idx, desired_idx),
                         !.trace = Append(@, desired_idx)]

\* one iteration of the outer while loop, i < len(diff_lines)
diff_outer_line(run, repo_path) ==
    LET line == run.diff_lines[run.st.i + 1] IN
    IF StartsWith(line, OldHeader)
    THEN [run EXCEPT !.st.i = @ + 1, !.st.current_file = TRUE]
    ELSE IF StartsWith(line, NewHeader)
    THEN IF ~run.st.current_file THEN diff_raise(run, "missing_original_header")
         ELSE IF normalize_header(HeaderName(line)) # normpath(repo_path)
              THEN diff_raise(run, "target_mismatch")
         ELSE [run EXCEPT !.st.i = @ + 1]
    ELSE IF StartsWith(line, HunkMark)
    THEN LET m == HunkHeaderMatch(line) IN
         IF ~m.ok THEN diff_raise(run, "malformed_hunk_header")
         ELSE hunk_start(run, m.a_start)
    ELSE [run EXCEPT !.st.i = @ + 1]

\* one iteration of the inner while loop, or its end
diff_hunk_line(run) ==
    IF run.st.i >= Len(run.diff_lines) THEN [run EXCEPT !.at = "outer"]
    ELSE LET hunk_line == run.diff_lines[run.st.i + 1]
             expected == SliceFrom(hunk_line, 1)
             idx == run.st.idx
             at_cursor == idx < Len(run.original_lines) /\ run.original_lines[idx + 1] = expected
         IN
         IF StartsWith(hunk_line, HunkMark) \/ StartsWith(hunk_line, OldHeader)
                \/ StartsWith(hunk_line, NewHeader)
         THEN [run EXCEPT !.at = "outer"]
         ELSE IF StartsWith(hunk_line, NoNewlineMark)
         THEN [run EXCEPT !.st.i = @ + 1]
         ELSE IF StartsWith(hunk_line, <<SP>>)
         THEN IF ~at_cursor THEN diff_raise(run, "context_mismatch")
              ELSE [run EXCEPT !.st.i = @ + 1, !.st.idx = @ + 1,
                               !.st.patched = Append(@, expected),
                               !.trace = Append(@, idx + 1)]
         ELSE IF StartsWith(hunk_line, <<"-">>)
         THEN IF ~at_cursor THEN diff_raise(run, "deletion_mismatch")
              ELSE [run EXCEPT !.st.i = @ + 1, !.st.idx = @ + 1,
                               !.trace = Append(@, idx + 1),
                               !.removed = @ \cup {idx}]
         ELSE IF StartsWith(hunk_line, <<"+">>)
         THEN [run EXCEPT !.st.i = @ + 1, !.st.patched = Append(@, expected),
                          !.added = Append(@, [at |-> idx, line |-> expected])]
         ELSE diff_raise(run, "unsupported_diff_line")

\* after the outer loop
diff_return(run) ==
    [run EXCEPT !.at = "done", !.out = DiffFinish(run.original, run.original_lines, run.st)]

-----------------------------------------------------------------------------
\* Content addressing, AGTAG splitting and parsing

MAX_AGTAG_SIZE == 100000
MAX_JSON_DEPTH == 10

START == "<!--AGTAG v1 START-->"
AGTAG_START == <<NL, NL, START>>
AGTAG_END == "<!--AGTAG v1 END-->"

Null == "<None>"

\* sha256_bytes: an injective digest of the exact text
sha256_bytes(b) == <<"sha256:">> \o b

\* s.rfind(p): greatest 0-based index at which p occurs in s, or -1
RFind(s, p) ==
    LET hits == {i \in 0..(Len(s) - Len(p)) : SubSeq(s, i + 1, i + Len(p)) = p}
    IN IF hits = {} THEN -1 ELSE CHOOSE i \in hits : \A j \in hits : j <= i

split_agtag(content) ==
    LET idx == RFind(content, AGTAG_START) IN
    IF idx = -1 THEN [code |-> content, has_block |-> FALSE, block |-> <<>>]
    ELSE LET tail == SliceFrom(content, idx) IN
         IF \A k \in 1..Len(tail) : tail[k] # AGTAG_END
         THEN [code |-> content, has_block |-> FALSE, block |-> <<>>]
         ELSE [code |-> SubSeq(content, 1, idx), has_block |-> TRUE, block |-> tail]

\* One symbol descriptor of an AGTAG payload.  lines is <<>> when absent,
\* else a pair whose members are <<n>> for an integer n and <<>> for null.
Descriptor(name, kind, lines, l0, l1) ==
    [name |-> name, kind |-> kind, lines |-> lines, signature |-> Null,
     summary_l0 |-> l0, contract_l1 |-> l1, pseudocode_l2 |-> Null,
     ast_excerpt_l3 |-> Null, ast_l3 |-> Null]

Range(s, e) == <<<<s>>, <<e>>>>

\* JSON values as json.loads builds them: a dict or a list with its members
\* (the values of a dict, the items of a list), or a primitive
JDict(kids) == [t |-> "dict", kids |-> kids]
JList(kids) == [t |-> "list", kids |-> kids]
JPrim == [t |-> "prim", kids |-> <<>>]

\* n containers of the given type inside one another around the value inner;
\* type "mixed" alternates dict and list
RECURSIVE Nest(_, _, _)
Nest(type, n, inner) ==
    IF n = 0 THEN inner
    ELSE IF type = "dict" \/ (type = "mixed" /\ n % 2 = 1)
    THEN JDict(<<Nest(type, n - 1, inner)>>)
    ELSE JList(<<Nest(type, n - 1, inner)>>)

\* the value of one symbol descriptor and of a payload {version, symbols}
DescriptorValue(s) ==
    JDict(<<JPrim, JPrim>> \o (IF s.lines = <<>> THEN <<>> ELSE <<JList(<<JPrim, JPrim>>)>>)
          \o <<JPrim, JPrim>>)
AgtagValue(symbols) ==
    JDict(<<JPrim, JList([k \in 1..Len(symbols) |-> DescriptorValue(symbols[k])])>>)

\* The JSON texts the model feeds in, each an opaque symbol "{...}" with what
\* len, json.loads and validate_agtag_data make of it: its length in
\* characters and in UTF-8 bytes, whether it is well-formed, whether decoding
\* it exhausts the interpreter's recursion limit, the value it decodes to,
\* whether the schema accepts it, and its symbols.
JsonDoc(chars, bytes, wellformed, recursion, value, schema_ok, symbols) ==
    [chars |-> chars, bytes |-> bytes, wellformed |-> wellformed, recursion |-> recursion,
     value |-> value, schema_ok |-> schema_ok, symbols |-> symbols]

\* a well-formed ASCII payload {version, symbols} of the given length
AgtagDoc(chars, schema_ok, symbols) ==
    JsonDoc(chars, chars, TRUE, FALSE, AgtagValue(symbols), schema_ok, symbols)

J_TWO == "{v1:helper[1,1],main[2,2]}"
J_TWO_B == "{v1:helper[1,1],main[2,2]'}"
J_DUP == "{v1:helper[1,1],main[2,2],helper[3,3]}"
J_ONE == "{v1:main[2,2]}"
J_RANGE == "{v1:main[2,9]}"
J_V2 == "{v2:main[2,2]}"
J_FULL == "{v1:module,Base[1,1]}"
J_CLS == "{v1:Base[1,1],Derived[2,2]}"
J_HALF == "{v1:main[0,null]}"
J_AT_LIMIT == "{v1:test, 100000 characters}"
J_OVER == "{v1:test, 100001 characters}"
J_OVER_BAD == "{v1:test, 100001 characters, unclosed"
J_WIDE == "{v1:test, 60075 characters in 120075 bytes}"
J_BAD == "{not json}"
J_DEEP_V2 == "{v2: 11 dicts around a string}"
J_DEEP_OK == "{v1:test, ast_excerpt_l3: 7 dicts around a string}"
J_ABYSS == "{v2: 1100 dicts around a string}"

TestDescriptor == Descriptor("test", "function", <<>>, "x", Null)

JsonDocs ==
    (J_TWO :> AgtagDoc(310, TRUE,
                      <<Descriptor("helper", "function", Range(1, 1), "returns 42", "@io -> int"),
                        Descriptor("main", "function", Range(2, 2), "calls helper", "@io -> int")>>))
    @@ (J_TWO_B :> AgtagDoc(312, TRUE,
                      <<Descriptor("helper", "function", Range(1, 1), "returns 42", "@io -> int"),
                        Descriptor("main", "function", Range(2, 2), "returns zero", Null)>>))
    @@ (J_DUP :> AgtagDoc(460, TRUE,
                      <<Descriptor("helper", "function", Range(1, 1), "returns 42", "@io -> int"),
                        Descriptor("main", "function", Range(2, 2), "calls helper", "@io -> int"),
                        Descriptor("helper", "function", Range(3, 3), "returns 43", "@io -> int")>>))
    @@ (J_ONE :> AgtagDoc(150, TRUE,
                      <<Descriptor("main", "function", Range(2, 2), "calls helper", "@io -> int")>>))
    @@ (J_RANGE :> AgtagDoc(150, TRUE,
                      <<Descriptor("main", "function", Range(2, 9), "calls helper", "@io -> int")>>))
    @@ (J_V2 :> AgtagDoc(150, FALSE,
                      <<Descriptor("main", "function", Range(2, 2), "calls helper", "@io -> int")>>))
    @@ (J_FULL :> AgtagDoc(200, TRUE,
                      <<Descriptor("module", "module", <<>>, "whole file", Null),
                        Descriptor("Base", "class", Range(1, 1), Null, Null)>>))
    @@ (J_CLS :> AgtagDoc(220, TRUE,
                      <<Descriptor("Base", "class", Range(1, 1), "a base", Null),
                        Descriptor("Derived", "Class", Range(2, 2), "derives", Null)>>))
    @@ (J_HALF :> AgtagDoc(150, TRUE,
                      <<Descriptor("main", "function", <<<<0>>, <<>>>>, "calls helper", "@io -> int")>>))
    @@ (J_AT_LIMIT :> AgtagDoc(MAX_AGTAG_SIZE, TRUE, <<TestDescriptor>>))
    @@ (J_OVER :> AgtagDoc(MAX_AGTAG_SIZE + 1, TRUE, <<TestDescriptor>>))
    @@ (J_OVER_BAD :> JsonDoc(MAX_AGTAG_SIZE + 1, MAX_AGTAG_SIZE + 1, FALSE, FALSE, JPrim, FALSE, <<>>))
    @@ (J_WIDE :> JsonDoc(60075, 120075, TRUE, FALSE, AgtagValue(<<TestDescriptor>>), TRUE,
                          <<TestDescriptor>>))
    @@ (J_BAD :> JsonDoc(10, 10, FALSE, FALSE, JPrim, FALSE, <<>>))
    @@ (J_DEEP_V2 :> JsonDoc(80, 80, TRUE, FALSE, Nest("dict", MAX_JSON_DEPTH + 1, JPrim), FALSE, <<>>))
    @@ (J_DEEP_OK :> JsonDoc(160, 160, TRUE, FALSE,
                             JDict(<<JPrim, JList(<<JDict(<<JPrim, JPrim,
                                                            Nest("dict", MAX_JSON_DEPTH - 3, JPrim)>>)>>)>>),
                             TRUE, <<TestDescriptor>>))
    @@ (J_ABYSS :> JsonDoc(6601, 6601, TRUE, TRUE, JPrim, FALSE, <<>>))

JsonSyms == DOMAIN JsonDocs

\* len() of a symbol run
RECURSIVE CharLen(_, _)
CharLen(s, i) ==
    IF i > Len(s) THEN 0
    ELSE (IF s[i] \in JsonSyms THEN JsonDocs[s[i]].chars ELSE 1) + CharLen(s, i + 1)

\* check_json_depth(obj, max_depth, current_depth): FALSE where it raises
RECURSIVE check_json_depth(_, _, _)
check_json_depth(obj, max_depth, current_depth) ==
    IF current_depth > max_depth THEN FALSE
    ELSE IF obj.t \in {"dict", "list"}
    THEN \A k \in 1..Len(obj.kids) : check_json_depth(obj.kids[k], max_depth, current_depth + 1)
    ELSE TRUE

\* validate_agtag_data: the JSON schema, the version and the lines shape
validate_agtag_data(doc) == doc.schema_ok

\* parse_agtag_block on the JSON text jtxt it has cut out of the block
parse_json_text(jtxt) ==
    IF CharLen(jtxt, 1) > MAX_AGTAG_SIZE THEN Fail("too_large")
    ELSE IF Len(jtxt) # 1 \/ ~JsonDocs[jtxt[1]].wellformed THEN Fail("invalid_json")
    ELSE IF JsonDocs[jtxt[1]].recursion THEN Fail("RecursionError")
    ELSE IF ~check_json_depth(JsonDocs[jtxt[1]].value, MAX_JSON_DEPTH, 0) THEN Fail("too_deep")
    ELSE IF ~validate_agtag_data(JsonDocs[jtxt[1]]) THEN Fail("schema_invalid")
    ELSE [ok |-> TRUE, agtag |-> JsonDocs[jtxt[1]]]

\* the positions of block that hold a "{" and a "}"
Braces(block) == {k \in 1..Len(block) : block[k] \in JsonSyms}

parse_agtag_block(block) ==
    IF Braces(block) = {} THEN Fail("missing_json")
    ELSE parse_json_text(SubSeq(block,
                                CHOOSE k \in Braces(block) : \A j \in Braces(block) : k <= j,
                                CHOOSE k \in Braces(block) : \A j \in Braces(block) : j <= k))

-----------------------------------------------------------------------------
\* Structural analysis of Python source (ast.parse and the ast walkers)

W_HELPER == "def helper(): return 42"
W_HELPER2 == "def helper(): return 43"
W_MAIN == "def main(): return helper()"
W_MAIN0 == "def main(): return 0"
W_BASE == "class Base: pass"
W_BROKEN == "def broken(:"
W_DERIVED == "class Derived(Base): pass"
W_REC == "def main(): return main()"

\* the definition a one-line def/class statement yields: its name, node type
\* and the names it calls (functions) or derives from (classes)
PyNodes ==
    (W_HELPER :> [name |-> "helper", type |-> "FunctionDef", targets |-> {}])
    @@ (W_HELPER2 :> [name |-> "helper", type |-> "FunctionDef", targets |-> {}])
    @@ (W_MAIN :> [name |-> "main", type |-> "FunctionDef", targets |-> {"helper"}])
    @@ (W_MAIN0 :> [name |-> "main", type |-> "FunctionDef", targets |-> {}])
    @@ (W_BASE :> [name |-> "Base", type |-> "ClassDef", targets |-> {}])
    @@ (W_DERIVED :> [name |-> "Derived", type |-> "ClassDef", targets |-> {"Base"}])
    @@ (W_REC :> [name |-> "main", type |-> "FunctionDef", targets |-> {"main"}])

PySyntaxErrors == {W_BROKEN}

\* ast.parse(full_content): None on SyntaxError, else the definitions by line
ast_parse(full_content) ==
    LET ls == splitlines(full_content) IN
    IF \E k \in 1..Len(ls) : \E j \in 1..Len(ls[k]) : ls[k][j] \in PySyntaxErrors
    THEN [parsed |-> FALSE, nodes |-> {}]
    ELSE [parsed |-> TRUE,
          nodes |-> {[lineno |-> k, name |-> PyNodes[ls[k][1]].name,
                      type |-> PyNodes[ls[k][1]].type,
                      targets |-> PyNodes[ls[k][1]].targets] :
                     k \in {n \in 1..Len(ls) : Len(ls[n]) = 1 /\ ls[n][1] \in DOMAIN PyNodes}}]

NoAst == [parsed |-> FALSE, nodes |-> {}]

\* str.lower() on the kinds the model uses
Lower(k) == IF k = "Class" THEN "class" ELSE IF k = "Function" THEN "function" ELSE k

\* _find_symbol_node: the set holding the matching node, or {} for None
_find_symbol_node(module_ast, symbol) ==
    IF ~module_ast.parsed \/ symbol.name = Null \/ symbol.start_line = <<>> THEN {}
    ELSE {n \in module_ast.nodes :
            /\ n.name = symbol.name
            /\ n.lineno = symbol.start_line[1]
            /\ (n.type = "ClassDef" => Lower(symbol.kind) = "class")}

\* name_to_id: a later row of the same name replaces an earlier one
NameToId(symbols, name) ==
    LET ids == {s.id : s \in {r \in symbols : r.name = name}} IN
    IF ids = {} THEN 0 ELSE CHOOSE i \in ids : \A j \in ids : j <= i

\* an edge builder that does not leave out the symbol itself
_build_symbol_edges_with_self(module_ast, symbols) ==
    IF ~module_ast.parsed \/ symbols = {} THEN {}
    ELSE UNION {
           UNION {
             {[src_id |-> s.id, dst_id |-> NameToId(symbols, t),
               edge_type |-> IF n.type = "FunctionDef" THEN "calls" ELSE "inherits"] :
              t \in {x \in n.targets : NameToId(symbols, x) # 0}}
             : n \in _find_symbol_node(module_ast, s)}
           : s \in symbols}

_build_symbol_edges(module_ast, symbols) ==
    IF ~module_ast.parsed \/ symbols = {} THEN {}
    ELSE UNION {
           UNION {
             {[src_id |-> s.id, dst_id |-> NameToId(symbols, t),
               edge_type |-> IF n.type = "FunctionDef" THEN "calls" ELSE "inherits"] :
              t \in {x \in n.targets : NameToId(symbols, x) # 0 /\ NameToId(symbols, x) # s.id}}
             : n \in _find_symbol_node(module_ast, s)}
           : s \in symbols}

-----------------------------------------------------------------------------
\* The store: rows of files, symbols, symbols_fts, edges and ops_log

EmptyDb == [files |-> {}, symbols |-> {}, symbols_fts |-> {}, edges |-> {}, ops_log |-> <<>>]

\* SELECT ... FROM files WHERE repo_path=? (repo_path is the conflict key)
FileRows(d, repo_path) == {r \in d.files : r.repo_path = repo_path}

StateOf(d, repo_path) ==
    IF FileRows(d, repo_path) = {} THEN "missing"
    ELSE (CHOOSE r \in FileRows(d, repo_path) : TRUE).db_state

HashOf(d, repo_path) == (CHOOSE r \in FileRows(d, repo_path) : TRUE).file_hash

\* an upsert that replaces nothing: on conflict the old row is deleted and the
\* new one is not written
upsert_file_dropping(d, repo_path, file_hash, state) ==
    IF FileRows(d, repo_path) # {}
    THEN [d EXCEPT !.files = {r \in @ : r.repo_path # repo_path}]
    ELSE [d EXCEPT !.files = @ \cup {[repo_path |-> repo_path, file_hash |-> file_hash,
                                      db_state |-> state]}]

\* an upsert that keeps the old row on conflict (INSERT OR IGNORE)
upsert_file_ignoring(d, repo_path, file_hash, state) ==
    IF FileRows(d, repo_path) # {} THEN d
    ELSE [d EXCEPT !.files = @ \cup {[repo_path |-> repo_path, file_hash |-> file_hash,
                                      db_state |-> state]}]

upsert_file(d, repo_path, file_hash, state) ==
    [d EXCEPT !.files = {r \in @ : r.repo_path # repo_path}
                        \cup {[repo_path |-> repo_path, file_hash |-> file_hash, db_state |-> state]}]

_delete_edges_for_symbol_ids(edges, symbol_ids) ==
    {e \in edges : e.src_id \notin symbol_ids /\ e.dst_id \notin symbol_ids}

\* a clear that leaves the symbols rows behind
clear_symbols_keeping_rows(d, repo_path) ==
    LET symbol_ids == {s.id : s \in {r \in d.symbols : r.repo_path = repo_path}} IN
    [d EXCEPT !.edges = _delete_edges_for_symbol_ids(@, symbol_ids),
              !.symbols_fts = {f \in @ : f.repo_path # repo_path}]

\* a clear that leaves the edge rows behind
clear_symbols_keeping_edges(d, repo_path) ==
    [d EXCEPT !.symbols = {s \in @ : s.repo_path # repo_path},
              !.symbols_fts = {f \in @ : f.repo_path # repo_path}]

\* a clear without the WHERE repo_path=? of its statements
clear_symbols_of_every_path(d, repo_path) ==
    [d EXCEPT !.edges = {}, !.symbols = {}, !.symbols_fts = {}]

clear_symbols(d, repo_path) ==
    LET symbol_ids == {s.id : s \in {r \in d.symbols : r.repo_path = repo_path}} IN
    [d EXCEPT !.edges = _delete_edges_for_symbol_ids(@, symbol_ids),
              !.symbols = {s \in @ : s.repo_path # repo_path},
              !.symbols_fts = {f \in @ : f.repo_path # repo_path}]

\* the bounds of one descriptor: s.get("lines") or [None, None]
LinesOf(s) == IF s.lines = <<>> THEN <<<<>>, <<>>>> ELSE s.lines

\* the range check of upsert_symbols on one descriptor
RangeOk(s, total_lines) ==
    LET start_line == LinesOf(s)[1]
        end_line == LinesOf(s)[2]
    IN (start_line # <<>> /\ end_line # <<>>)
         => /\ ~(start_line[1] < 1 \/ end_line[1] < start_line[1])
            /\ ~(end_line[1] > total_lines)

\* the row upsert_symbols builds from one descriptor (id given on insert)
SymbolRow(repo_path, s, full_content, id) ==
    LET lines_cache == splitlines(full_content)
        start_line == LinesOf(s)[1]
        end_line == LinesOf(s)[2]
        l3_payload == IF s.ast_excerpt_l3 # Null THEN s.ast_excerpt_l3 ELSE s.ast_l3
    IN [id |-> id, repo_path |-> repo_path, name |-> s.name, kind |-> s.kind,
        signature |-> s.signature, start_line |-> start_line, end_line |-> end_line,
        content_hash |-> IF start_line # <<>> /\ end_line # <<>>
                         THEN sha256_bytes(Join(<<NL>>, Slice(lines_cache, start_line[1] - 1, end_line[1])))
                         ELSE sha256_bytes(full_content),
        l0_overview |-> s.summary_l0, l1_contract |-> s.contract_l1,
        l2_pseudocode |-> s.pseudocode_l2, l3_ast_json |-> l3_payload]

MaxId(symbols) ==
    IF symbols = {} THEN 0
    ELSE CHOOSE i \in {s.id : s \in symbols} : \A j \in {s.id : s \in symbols} : j <= i

FtsRow(s) ==
    [rowid |-> s.id, repo_path |-> s.repo_path, name |-> s.name,
     l0_overview |-> s.l0_overview, l1_contract |-> s.l1_contract]

\* an analysis that does not look at the file's suffix
parsed_ast_any_suffix(repo_path, full_content) == ast_parse(full_content)

\* parsed_ast of upsert_symbols: ast.parse for a .py path, None for any other
\* path and on SyntaxError
parsed_ast_of(repo_path, full_content) ==
    IF EndsWith(repo_path, <<".", "p", "y">>) THEN ast_parse(full_content) ELSE NoAst

\* upsert_symbols up to its conn.commit(): the rebuilt store, or the
\* ValueError of the first descriptor whose range is invalid
upsert_symbols(d, repo_path, agtag, full_content) ==
    LET cleared == clear_symbols(d, repo_path)
        total_lines == Len(splitlines(full_content))
        parsed_ast == parsed_ast_of(repo_path, full_content)
        descs == agtag.symbols
        base == MaxId(cleared.symbols)
        rows == {SymbolRow(repo_path, descs[k], full_content, base + k) : k \in 1..Len(descs)}
    IN IF \E k \in 1..Len(descs) : ~RangeOk(descs[k], total_lines)
       THEN Fail("invalid_line_range")
       ELSE [ok |-> TRUE,
             db |-> [cleared EXCEPT
                       !.symbols = @ \cup rows,
                       !.symbols_fts = @ \cup {FtsRow(s) : s \in rows},
                       !.edges = @ \cup _build_symbol_edges(parsed_ast, rows)]]

-----------------------------------------------------------------------------
\* The patch envelope: extract_final_file_payload

FINAL_MARK == "AGTAG_PATCH_FINAL_FILE"
END_WORD == "END"

\* next position at or after i that holds no whitespace (the regex \s*)
RECURSIVE SkipWs(_, _)
SkipWs(t, i) == IF i <= Len(t) /\ t[i] \in Whitespace THEN SkipWs(t, i + 1) ELSE i

-----------------------------------------------------------------------------
\* Inputs

pA == <<"a", ".", "p", "y">>
pB == <<"b", ".", "m", "d">>
Paths == {pA, pB}

\* --path values that are not in normal form, absolute, or leave the root
OtherPaths ==
    {<<".", "/">> \o pA,
     <<"x", "/", ".", ".", "/">> \o pA,
     <<"/">> \o pA,
     <<"/", "/">> \o pA,
     <<".", ".", "/">> \o pA,
     <<"x", "/", ".", ".", "/", ".", ".", "/">> \o pA,
     Cwd \o <<"/">> \o pA}

\* code, a blank line, then the AGTAG block (the layout the tests ingest)
FileText(code_lines, json) ==
    Join(<<NL>>, code_lines) \o <<NL>> \o AGTAG_START \o <<NL, json, NL, AGTAG_END, NL>>

T_TWO == FileText(<<<<W_HELPER>>, <<W_MAIN>>>>, J_TWO)
T_TWO0 == FileText(<<<<W_HELPER>>, <<W_MAIN0>>>>, J_TWO)
T_RANGE == FileText(<<<<W_HELPER>>, <<W_MAIN>>>>, J_RANGE)
T_V2 == FileText(<<<<W_HELPER>>, <<W_MAIN>>>>, J_V2)
T_BARE == <<W_HELPER, NL, W_MAIN, NL>>
T_FULL == FileText(<<<<W_BASE>>>>, J_FULL) \o <<NL>>
T_CLS == FileText(<<<<W_BASE>>, <<W_DERIVED>>>>, J_CLS)
T_HALF == FileText(<<<<W_HELPER>>, <<W_MAIN>>>>, J_HALF)

\* the JSON objects that follow AGTAG_PATCH_FINAL_FILE, each an opaque symbol
\* with the value json.loads gives its "final_file" key
F_TWO0 == "{final_file:helper,main0}"
F_TWO == "{final_file:helper,main}"
F_NONE == "{no final_file}"
F_TWO0_NL == "{final_file:helper,main0,newlines}"

FinalPayloads ==
    (F_TWO0 :> [has_final_file |-> TRUE, final_file |-> T_TWO0])
    @@ (F_TWO :> [has_final_file |-> TRUE, final_file |-> T_TWO])
    @@ (F_NONE :> [has_final_file |-> FALSE, final_file |-> <<>>])
    @@ (F_TWO0_NL :> [has_final_file |-> TRUE, final_file |-> T_TWO0 \o <<NL, NL>>])

BraceSyms == JsonSyms \cup DOMAIN FinalPayloads

\* the pattern r"AGTAG_PATCH_FINAL_FILE\s*\{.*?\}\s*END" matched at position i
\* of t, with the JSON object at j: the set holding the match, as
\* [start, jstart, jend], or {} if there is none
FinalMatchWithJson(t, i, j) ==
    IF i <= Len(t) /\ t[i] = FINAL_MARK /\ j <= Len(t) /\ t[j] \in BraceSyms
    THEN {[start |-> i - 1, jstart |-> j, jend |-> k] :
          k \in {e \in j..Len(t) :
                   /\ t[e] \in BraceSyms /\ SkipWs(t, e + 1) <= Len(t)
                   /\ t[SkipWs(t, e + 1)] = END_WORD
                   /\ \A m \in j..(e - 1) :
                        ~(t[m] \in BraceSyms /\ SkipWs(t, m + 1) <= Len(t)
                          /\ t[SkipWs(t, m + 1)] = END_WORD)}}
    ELSE {}

FinalMatchAt(t, i) == FinalMatchWithJson(t, i, SkipWs(t, i + 1))

\* re.search(..., diff_text, re.S): the leftmost match at or after i
RECURSIVE FinalSearch(_, _)
FinalSearch(t, i) ==
    IF i > Len(t) THEN {}
    ELSE IF FinalMatchAt(t, i) # {} THEN FinalMatchAt(t, i)
    ELSE FinalSearch(t, i + 1)

\* json.loads of the matched object and its "final_file" key
FinalPayloadOf(diff_text, m) ==
    IF m.jstart # m.jend \/ diff_text[m.jstart] \notin DOMAIN FinalPayloads
    THEN Fail("invalid_json")
    ELSE IF ~FinalPayloads[diff_text[m.jstart]].has_final_file
    THEN Fail("missing_final_file")
    ELSE [ok |-> TRUE, has |-> TRUE, span_start |-> m.start,
          final_file |-> FinalPayloads[diff_text[m.jstart]].final_file]

FinalPayloadIn(diff_text, found) ==
    IF found = {} THEN [ok |-> TRUE, has |-> FALSE]
    ELSE FinalPayloadOf(diff_text, CHOOSE m \in found : TRUE)

extract_final_file_payload(diff_text) == FinalPayloadIn(diff_text, FinalSearch(diff_text, 1))

DiffHeader(old, new) ==
    OldHeader \o <<"a", "/">> \o old \o <<NL>> \o NewHeader \o <<"b", "/">> \o new \o <<NL>>

\* "@@ -s,l +s,l @@" with one-digit numbers
HunkHeader(a_start, a_len, b_start, b_len) ==
    <<"@", "@", SP, "-", a_start, ",", a_len, SP, "+", b_start, ",", b_len, SP, "@", "@", NL>>

\* a one-line hunk putting the line new in place of the line old
ReplaceLine(line_no, old, new) ==
    HunkHeader(line_no, "1", line_no, "1") \o <<"-">> \o old \o <<NL, "+">> \o new \o <<NL>>

Replace(line_no, old, new) == ReplaceLine(line_no, <<old>>, <<new>>)

D_CODE(p) == DiffHeader(p, p) \o Replace("2", W_MAIN, W_MAIN0)
D_BREAK(p) == DiffHeader(p, p) \o Replace("2", W_MAIN, W_BROKEN)
D_NOHUNKS(p) == DiffHeader(p, p)
D_OVERLAP(p) ==
    DiffHeader(p, p) \o Replace("2", W_MAIN, W_MAIN0) \o Replace("1", W_HELPER, W_HELPER)
D_SAME(p) == DiffHeader(p, p) \o Replace("2", W_MAIN, W_MAIN)
D_CODE_BACK(p) == DiffHeader(p, p) \o Replace("2", W_MAIN0, W_MAIN)
D_META(p) == DiffHeader(p, p) \o Replace("6", J_TWO, J_TWO_B)
D_BOTH(p) == DiffHeader(p, p) \o Replace("2", W_MAIN0, W_MAIN) \o Replace("6", J_TWO_B, J_TWO)
D_RANGE(p) == DiffHeader(p, p) \o Replace("6", J_TWO, J_RANGE)
D_V2(p) == DiffHeader(p, p) \o Replace("6", J_TWO, J_V2)
D_CTX(p) == DiffHeader(p, p) \o HunkHeader("1", "1", "1", "1") \o <<SP, "zzz", NL>>
D_DROP(p) ==
    DiffHeader(p, p) \o HunkHeader("3", "5", "3", "0")
    \o <<"-", NL, "-", NL, "-", START, NL, "-", J_TWO, NL, "-", AGTAG_END, NL>>
D_FINAL(p, f) == D_CODE(p) \o <<FINAL_MARK, NL, f, NL, END_WORD, NL>>
Other(p) == IF p = pA THEN pB ELSE pA
D_REC(p) == DiffHeader(p, p) \o Replace("2", W_MAIN, W_REC)
D_OTHER(p) == DiffHeader(Other(p), Other(p)) \o Replace("2", W_MAIN, W_MAIN0)

PatchInputs(p) ==
    IF p = pA
    THEN {D_CODE(p), D_CODE_BACK(p), D_META(p), D_BOTH(p), D_RANGE(p), D_V2(p), D_CTX(p),
          D_DROP(p), D_FINAL(p, F_TWO0), D_FINAL(p, F_TWO0_NL), D_FINAL(p, F_TWO), D_FINAL(p, F_NONE), D_OTHER(p),
          D_REC(p)}
    ELSE {D_CODE(p), D_DROP(p)}

T_BROKEN == FileText(<<<<W_HELPER>>, <<W_BROKEN>>>>, J_TWO)
T_DUP == FileText(<<<<W_HELPER>>, <<W_MAIN>>, <<W_HELPER2>>>>, J_DUP)
T_OVER == FileText(<<<<W_HELPER>>, <<W_MAIN>>>>, J_OVER)
T_DEEP == FileText(<<<<W_HELPER>>, <<W_MAIN>>>>, J_DEEP_V2)

IngestInputs(p) == IF p = pA THEN {T_TWO, T_RANGE, T_V2, T_BARE, T_CLS, T_HALF} ELSE {T_TWO, T_FULL}

\* contents for the runs that rebuild an index: sound, broken and class code
RebuildIngests(p) == IF p = pA THEN {T_TWO, T_BROKEN, T_CLS} ELSE {T_TWO}

\* contents for the runs on error kinds and on names
KindIngests(p) == IF p = pA THEN {T_TWO, T_OVER, T_DEEP, T_DUP, T_CLS} ELSE {T_TWO}

-----------------------------------------------------------------------------
\* ingest and patch

\* operations started in one run of the model
MaxCalls == 3

\* text.rstrip("\n") + "\n"
Normalized(text) == RStripSet(text, {NL}) \o <<NL>>

DiskHas(dk, path) == \E f \in dk : f.path = path
DiskRead(dk, path) == (CHOOSE f \in dk : f.path = path).text
DiskWrite(dk, path, text) == {f \in dk : f.path # path} \cup {[path |-> path, text |-> text]}

LogOp(d, op, path) == [d EXCEPT !.ops_log = Append(@, [op |-> op, path |-> path])]

Error(kind, hint) == [status |-> "error", error |-> kind, hint |-> hint]
Success(path, file_hash) == [status |-> "ok", path |-> path, file_hash |-> file_hash]
Running == [status |-> "running"]

\* a state check that lets any state through
IngestAllowedAnyState(state) == TRUE

\* the state check of _ingest_file_content
IngestAllowed(state) == state = "missing"

\* a hash check that never fires
HashGuardNeverFails(file_hash, hash_before) == FALSE

\* the hash check of patch
HashGuardFails(file_hash, hash_before) == file_hash # hash_before

Outcome(d, dk, next_pc, res) == [db |-> d, disk |-> dk, pc |-> next_pc, result |-> res]

\* _ingest_file_content with write_to_disk=True, up to the commit inside
\* upsert_symbols: the committed store, the disk, and what is printed if it
\* stops there
_ingest_file_content(d, dk, safe_path, content) ==
    LET sp == split_agtag(content)
        parsed == parse_agtag_block(sp.block)
        written == DiskWrite(dk, safe_path, Normalized(content))
        built == upsert_symbols(d, safe_path, parsed.agtag, sp.code)
    IN IF ~IngestAllowed(StateOf(d, safe_path))
       THEN Outcome(d, dk, "idle", Error("indexed_file_rejects_full_content", "Use agentdb patch instead"))
       ELSE IF ~sp.has_block
       THEN Outcome(d, dk, "idle", Error("agtag_missing", "Append an AGTAG block at EOF"))
       ELSE IF ~parsed.ok /\ parsed.error = "RecursionError"
       THEN Outcome(d, dk, "idle", Error("uncaught", parsed.error))
       ELSE IF ~parsed.ok
       THEN Outcome(d, dk, "idle", Error("agtag_invalid", parsed.error))
       ELSE IF ~built.ok
       THEN Outcome(d, written, "idle", Error("agtag_symbol_invalid", built.error))
       ELSE Outcome(built.db, written, "ingest_symbols_committed", Running)

\* a patch that asks for a block as ingest does
patch_symbols_requiring_block(d, written, safe_path, new_hash, has_block, parsed, code) ==
    IF has_block /\ ~parsed.ok /\ parsed.error = "RecursionError"
    THEN Outcome(d, written, "idle", Error("uncaught", parsed.error))
    ELSE IF has_block /\ ~parsed.ok
    THEN Outcome(d, written, "idle", Error("agtag_invalid", parsed.error))
    ELSE IF has_block /\ ~upsert_symbols(d, safe_path, parsed.agtag, code).ok
    THEN Outcome(d, written, "idle",
                 Error("agtag_invalid", upsert_symbols(d, safe_path, parsed.agtag, code).error))
    ELSE IF has_block
    THEN Outcome(upsert_symbols(d, safe_path, parsed.agtag, code).db, written,
                 "patch_symbols_committed", Running)
    ELSE Outcome(d, written, "idle", Error("agtag_missing", "Append an AGTAG block at EOF"))

\* patch from split_agtag on: parse and rebuild the symbols of the new
\* content, or clear them when it has no block
patch_symbols(d, written, safe_path, new_hash, has_block, parsed, code) ==
    IF has_block /\ ~parsed.ok /\ parsed.error = "RecursionError"
    THEN Outcome(d, written, "idle", Error("uncaught", parsed.error))
    ELSE IF has_block /\ ~parsed.ok
    THEN Outcome(d, written, "idle", Error("agtag_invalid", parsed.error))
    ELSE IF has_block /\ ~upsert_symbols(d, safe_path, parsed.agtag, code).ok
    THEN Outcome(d, written, "idle",
                 Error("agtag_invalid", upsert_symbols(d, safe_path, parsed.agtag, code).error))
    ELSE IF has_block
    THEN Outcome(upsert_symbols(d, safe_path, parsed.agtag, code).db, written,
                 "patch_symbols_committed", Running)
    ELSE Outcome(LogOp(upsert_file(clear_symbols(d, safe_path), safe_path, new_hash, "indexed"),
                       "patch", safe_path),
                 written, "idle", Success(safe_path, new_hash))

patch_split(d, written, safe_path, new_hash, sp) ==
    patch_symbols(d, written, safe_path, new_hash, sp.has_block, parse_agtag_block(sp.block), sp.code)

\* patch from the write of the new content on
patch_write(d, dk, safe_path, final_content) ==
    patch_split(d, DiskWrite(dk, safe_path, final_content), safe_path,
                sha256_bytes(final_content), split_agtag(final_content))

\* the content a patch writes: the final file if one was given, else the
\* patched text, with one trailing newline
PatchedContent(fin, applied) == Normalized(IF fin.has THEN fin.final_file ELSE applied.text)

\* a patch that does not compare the patched text with the final file
patch_applied_unchecked(d, dk, safe_path, fin, applied) ==
    IF ~applied.ok
    THEN Outcome(d, dk, "idle", Error("patch_failed", applied.error))
    ELSE patch_write(d, dk, safe_path, PatchedContent(fin, applied))

\* patch once the diff was applied
patch_applied(d, dk, safe_path, fin, applied) ==
    IF ~applied.ok
    THEN Outcome(d, dk, "idle", Error("patch_failed", applied.error))
    ELSE IF fin.has /\ RStripSet(applied.text, {NL}) # RStripSet(fin.final_file, {NL})
    THEN Outcome(d, dk, "idle", Error("final_file_mismatch", "AGTAG_PATCH_FINAL_FILE does not match applied diff"))
    ELSE patch_write(d, dk, safe_path, PatchedContent(fin, applied))

\* the diff without the final-file envelope
DiffToApply(stdin, fin) == IF fin.has THEN SubSeq(stdin, 1, fin.span_start) ELSE stdin

\* patch once the envelope was read
patch_with_final(d, dk, safe_path, stdin, fin) ==
    IF ~fin.ok
    THEN Outcome(d, dk, "idle", Error("final_file_invalid", fin.error))
    ELSE IF ~DiskHas(dk, safe_path)
    THEN Outcome(d, dk, "idle", Error("uncaught", "FileNotFoundError"))
    ELSE patch_applied(d, dk, safe_path, fin,
                       apply_unified_diff_to_text(DiskRead(dk, safe_path),
                                                  DiffToApply(stdin, fin), safe_path))

\* patch, up to its first commit (inside upsert_symbols when the new content
\* has an AGTAG block, else the final one)
patch(d, dk, safe_path, hash_before, stdin) ==
    IF StateOf(d, safe_path) # "indexed"
    THEN Outcome(d, dk, "idle", Error("not_indexed", "ingest first"))
    ELSE IF HashGuardFails(HashOf(d, safe_path), hash_before)
    THEN Outcome(d, dk, "idle", Error("hash_conflict", HashOf(d, safe_path)))
    ELSE patch_with_final(d, dk, safe_path, stdin, extract_final_file_payload(stdin))

\* the hash a successful patch of this input records and returns
PatchHashWith(dk, safe_path, stdin, fin) ==
    sha256_bytes(PatchedContent(fin, apply_unified_diff_to_text(DiskRead(dk, safe_path),
                                                               DiffToApply(stdin, fin), safe_path)))

PatchNewHash(dk, safe_path, stdin) ==
    PatchHashWith(dk, safe_path, stdin, extract_final_file_payload(stdin))

\* hashes a caller can hold: those it was returned, and that of a known text
HashInputs(path) == {h[2] : h \in {r \in returned : r[1] = path}} \cup {sha256_bytes(T_TWO)}

\* the patch calls tried: every diff with the recorded hash, one diff with
\* every hash the caller can hold
PatchArgsFrom(d, path, inputs) ==
    {<<h, stdin>> \in HashInputs(path) \X inputs :
        stdin = D_CODE(path) \/ (StateOf(d, path) = "indexed" /\ h = HashOf(d, path))}

PatchArgs(d, path) == PatchArgsFrom(d, path, PatchInputs(path))

\* diffs for the runs that rebuild an index
RebuildPatches(p) ==
    IF p = pA THEN {D_CODE(p), D_CODE_BACK(p), D_SAME(p), D_BREAK(p), D_DROP(p)}
    ELSE {D_CODE(p)}

\* diffs for the runs on error kinds
KindPatches(p) ==
    IF p = pA
    THEN {D_CODE(p), D_CTX(p), D_OTHER(p), D_NOHUNKS(p), D_OVERLAP(p),
          D_FINAL(p, F_TWO0), D_FINAL(p, F_TWO)}
    ELSE {D_CODE(p)}

\* the ingest command with --path: the path check, then _ingest_file_content
ingest(d, dk, path, content) ==
    IF ~ensure_repo_relative_path(path).ok
    THEN Outcome(d, dk, "idle", Error("unsafe_path", ensure_repo_relative_path(path).error))
    ELSE _ingest_file_content(d, dk, ensure_repo_relative_path(path).path, content)

\* the patch command: the path check, then the rest of patch
patch_command(d, dk, path, hash_before, stdin) ==
    IF ~ensure_repo_relative_path(path).ok
    THEN Outcome(d, dk, "idle", Error("unsafe_path", ensure_repo_relative_path(path).error))
    ELSE patch(d, dk, ensure_repo_relative_path(path).path, hash_before, stdin)

\* the path a command works on: the checked path, or the argument if refused
SafePath(path) ==
    IF ensure_repo_relative_path(path).ok THEN ensure_repo_relative_path(path).path ELSE path

Snapshot == [db |-> db, disk |-> disk]

Apply(out) ==
    /\ db' = out.db
    /\ disk' = out.disk
    /\ pc' = out.pc
    /\ result' = out.result
    /\ returned' = IF out.result.status = "ok"
                   THEN returned \cup {<<out.result.path, out.result.file_hash>>}
                   ELSE returned

IngestCall(path, content) ==
    /\ pc = "idle"
    /\ calls < MaxCalls
    /\ calls' = calls + 1
    /\ call' = [op |-> "ingest", arg |-> path, path |-> SafePath(path), content |-> content,
                file_hash |-> sha256_bytes(content)]
    /\ pre' = Snapshot
    /\ Apply(ingest(db, disk, path, content))
    /\ UNCHANGED <<diffVars, parseVars, focusVars, migrateVars, bulkVars>>

\* upsert_file, the ops_log row and the final commit of _ingest_file_content
IngestFinish ==
    /\ pc = "ingest_symbols_committed"
    /\ Apply(Outcome(LogOp(upsert_file(db, call.path, call.file_hash, "indexed"),
                           "ingest_file", call.path),
                     disk, "idle", Success(call.path, call.file_hash)))
    /\ UNCHANGED <<call, pre, calls, diffVars, parseVars, focusVars, migrateVars, bulkVars>>

PatchCall(path, hash_before, stdin) ==
    /\ pc = "idle"
    /\ calls < MaxCalls
    /\ calls' = calls + 1
    /\ LET out == patch_command(db, disk, path, hash_before, stdin) IN
       /\ call' = [op |-> "patch", arg |-> path, path |-> SafePath(path),
                   hash_before |-> hash_before, stdin |-> stdin,
                   file_hash |-> IF out.pc = "idle" THEN <<>>
                                 ELSE PatchNewHash(disk, SafePath(path), stdin)]
       /\ Apply(out)
    /\ pre' = Snapshot
    /\ UNCHANGED <<diffVars, parseVars, focusVars, migrateVars, bulkVars>>

\* upsert_file, the ops_log row and the final commit of patch
PatchFinish ==
    /\ pc = "patch_symbols_committed"
    /\ Apply(Outcome(LogOp(upsert_file(db, call.path, call.file_hash, "indexed"),
                           "patch", call.path),
                     disk, "idle", Success(call.path, call.file_hash)))
    /\ UNCHANGED <<call, pre, calls, diffVars, parseVars, focusVars, migrateVars, bulkVars>>

\* the process dies, or upsert_file raises, between the two commits: what was
\* committed stays, nothing more is written
Abort ==
    /\ pc # "idle"
    /\ pc' = "idle"
    /\ result' = [status |-> "aborted"]
    /\ UNCHANGED <<db, disk, call, pre, returned, calls, diffVars, parseVars, focusVars, migrateVars, bulkVars>>

-----------------------------------------------------------------------------
\* The patch engine on its own: inputs and the step that applies it

LINE_X == <<"x">>
LINE_Y == <<"y">>
LINE_DASH == <<"-", "-", SP, "y">>

Text(ls, final_newline) == Join(<<NL>>, ls) \o (IF final_newline /\ ls # <<>> THEN <<NL>> ELSE <<>>)

DiffTexts ==
    {Text(<<>>, TRUE), Text(<<LINE_X>>, TRUE), Text(<<LINE_X>>, FALSE),
     Text(<<LINE_X, LINE_Y>>, TRUE), Text(<<LINE_Y>>, TRUE),
     Text(<<LINE_X, LINE_DASH>>, TRUE), Text(<<LINE_X, <<>>>>, TRUE)}

DigitSym(n) == CHOOSE d \in Digits : DigitVal(d) = n

HasFinalNewline(t) == t = <<>> \/ EndsWith(t, <<NL>>)

\* the lines a and b share at their start, a line without its newline being
\* a different line from the same line with it
CommonPrefix(t, u) ==
    LET a == splitlines(t)
        b == splitlines(u)
        same(j) == /\ a[j] = b[j]
                   /\ (j < Len(a) \/ HasFinalNewline(t))
                   /\ (j < Len(b) \/ HasFinalNewline(u))
        ks == {k \in 0..Min(Len(a), Len(b)) : \A j \in 1..k : same(j)}
    IN CHOOSE k \in ks : \A m \in ks : m <= k

RECURSIVE BodyLines(_, _, _, _, _)
BodyLines(mark, ls, from, to, final_newline) ==
    IF from > to THEN <<>>
    ELSE mark \o ls[from] \o <<NL>>
         \o (IF from = Len(ls) /\ ~final_newline THEN NoNewlineMark \o <<NL>> ELSE <<>>)
         \o BodyLines(mark, ls, from + 1, to, final_newline)

\* diff -u of t against u for the file at path, as one hunk over the whole
\* file with the shared leading lines as context
UnifiedDiff(t, u, path) ==
    LET a == splitlines(t)
        b == splitlines(u)
        k == CommonPrefix(t, u)
    IN DiffHeader(path, path)
       \o HunkHeader(DigitSym(IF a = <<>> THEN 0 ELSE 1), DigitSym(Len(a)),
                     DigitSym(IF b = <<>> THEN 0 ELSE 1), DigitSym(Len(b)))
       \o BodyLines(<<SP>>, a, 1, k, TRUE)
       \o BodyLines(<<"-">>, a, k + 1, Len(a), HasFinalNewline(t))
       \o BodyLines(<<"+">>, b, k + 1, Len(b), HasFinalNewline(u))

\* diff -U0 of t against u: no context, the hunk starts where the texts part
UnifiedDiff0(t, u, path) ==
    LET a == splitlines(t)
        b == splitlines(u)
        k == CommonPrefix(t, u)
    IN DiffHeader(path, path)
       \o HunkHeader(DigitSym(IF Len(a) = k THEN k ELSE k + 1), DigitSym(Len(a) - k),
                     DigitSym(IF Len(b) = k THEN k ELSE k + 1), DigitSym(Len(b) - k))
       \o BodyLines(<<"-">>, a, k + 1, Len(a), HasFinalNewline(t))
       \o BodyLines(<<"+">>, b, k + 1, Len(b), HasFinalNewline(u))

DiffInput(original, diff_text, repo_path, standard, target) ==
    [original |-> original, diff_text |-> diff_text, repo_path |-> repo_path,
     standard |-> standard, target |-> target]

StandardDiffInputs ==
    {DiffInput(t, UnifiedDiff(t, u, pA), pA, TRUE, u) : <<t, u>> \in {x \in DiffTexts \X DiffTexts : x[1] # x[2]}}
    \cup {DiffInput(t, UnifiedDiff0(t, u, pA), pA, TRUE, u) : <<t, u>> \in {x \in DiffTexts \X DiffTexts : x[1] # x[2]}}

T_XY == Text(<<LINE_X, LINE_Y>>, TRUE)
T_X == Text(<<LINE_X>>, FALSE)

\* diffs no diff tool wrote: no headers, another target, an unnormalised
\* target, a wrong context line, hunks out of order, no hunk, a deletion line
\* that reads like a header
OtherDiffInputs ==
    {DiffInput(T_XY, ReplaceLine("2", LINE_Y, LINE_X), pA, FALSE, <<>>),
     DiffInput(T_XY, DiffHeader(pB, pB) \o ReplaceLine("2", LINE_Y, LINE_X), pA, FALSE, <<>>),
     DiffInput(T_XY, DiffHeader(pA, <<".", "/">> \o pA) \o ReplaceLine("2", LINE_Y, LINE_X), pA, FALSE, <<>>),
     DiffInput(T_XY, NewHeader \o <<"b", "/">> \o pA \o <<NL>> \o ReplaceLine("2", LINE_Y, LINE_X), pA, FALSE, <<>>),
     DiffInput(T_XY, DiffHeader(pA, pA) \o HunkHeader("1", "2", "1", "2") \o <<SP>> \o LINE_Y \o <<NL>>, pA, FALSE, <<>>),
     DiffInput(T_XY, DiffHeader(pA, pA) \o HunkHeader("3", "1", "3", "1") \o <<SP>> \o LINE_Y \o <<NL>>, pA, FALSE, <<>>),
     DiffInput(T_XY, DiffHeader(pA, pA) \o ReplaceLine("2", LINE_Y, LINE_X) \o ReplaceLine("1", LINE_X, LINE_Y), pA, FALSE, <<>>),
     DiffInput(T_XY, DiffHeader(pA, pA) \o ReplaceLine("1", LINE_X, LINE_Y) \o ReplaceLine("2", LINE_Y, LINE_X), pA, FALSE, <<>>),
     DiffInput(T_XY, DiffHeader(pA, pA), pA, FALSE, <<>>),
     DiffInput(T_XY, DiffHeader(pA, pA) \o <<"@", "@", SP, "-", "1", NL>>, pA, FALSE, <<>>),
     DiffInput(T_XY, DiffHeader(pA, pA) \o HunkHeader("1", "1", "1", "1") \o <<"x", NL>>, pA, FALSE, <<>>),
     DiffInput(T_X, DiffHeader(pA, pA) \o HunkHeader("1", "1", "1", "0") \o <<"-">> \o LINE_DASH \o <<NL>>, pA, FALSE, <<>>),
     DiffInput(T_X, DiffHeader(pA, pA) \o HunkHeader("1", "1", "1", "0") \o <<"-">> \o LINE_Y \o <<NL>>, pA, FALSE, <<>>)}

DiffInputs == StandardDiffInputs \cup OtherDiffInputs

NoDiffInput == DiffInput(<<>>, <<>>, <<>>, FALSE, <<>>)
NoDiffOutput == [status |-> "none"]

\* one run of apply_unified_diff_to_text on the input under test
DiffApply ==
    /\ dOut.status = "none"
    /\ dIn # NoDiffInput
    /\ dOut' = [status |-> "done",
                out |-> apply_unified_diff_to_text(dIn.original, dIn.diff_text, dIn.repo_path)]
    /\ UNCHANGED <<dIn, dRun, storeVars, parseVars, focusVars, migrateVars, bulkVars>>

\* the call of apply_unified_diff_to_text on the input under test
DiffEnter ==
    /\ dRun = NoDiffRun
    /\ odb = NoOpenRun
    /\ dIn # NoDiffInput
    /\ dRun' = diff_enter(dIn.original, dIn.diff_text)
    /\ UNCHANGED <<dIn, dOut, storeVars, parseVars, focusVars, migrateVars, bulkVars>>

DiffOuterLine ==
    /\ dRun.at = "outer"
    /\ dRun.st.i < Len(dRun.diff_lines)
    /\ dRun' = diff_outer_line(dRun, dIn.repo_path)
    /\ UNCHANGED <<dIn, dOut, storeVars, parseVars, focusVars, migrateVars, bulkVars>>

DiffHunkLine ==
    /\ dRun.at = "hunk"
    /\ dRun' = diff_hunk_line(dRun)
    /\ UNCHANGED <<dIn, dOut, storeVars, parseVars, focusVars, migrateVars, bulkVars>>

DiffReturn ==
    /\ dRun.at = "outer"
    /\ dRun.st.i >= Len(dRun.diff_lines)
    /\ dRun' = diff_return(dRun)
    /\ UNCHANGED <<dIn, dOut, storeVars, parseVars, focusVars, migrateVars, bulkVars>>

\* diffs of several hunks: adjacent, at the same place, into the context of
\* the one before, before the first line, past the last line
HunkHeaders == DiffHeader(pA, pA)

AddLine(line_no, new) == HunkHeader(line_no, "0", line_no, "1") \o <<"+">> \o new \o <<NL>>

KeepLines(line_no, ls) == HunkHeader(line_no, DigitSym(Len(ls)), line_no, DigitSym(Len(ls))) \o BodyLines(<<SP>>, ls, 1, Len(ls), TRUE)

T_XYX == Text(<<LINE_X, LINE_Y, LINE_X>>, TRUE)
T_X_BLANK == Text(<<LINE_X, <<>>>>, TRUE)

HunkDiffs ==
    {HunkHeaders \o ReplaceLine("1", LINE_X, LINE_Y) \o ReplaceLine("2", LINE_Y, LINE_X),
     HunkHeaders \o ReplaceLine("1", LINE_X, LINE_Y) \o ReplaceLine("3", LINE_X, LINE_Y),
     HunkHeaders \o ReplaceLine("2", LINE_Y, LINE_X) \o ReplaceLine("1", LINE_X, LINE_Y),
     HunkHeaders \o AddLine("2", LINE_X) \o AddLine("2", LINE_Y),
     HunkHeaders \o AddLine("2", LINE_X) \o AddLine("1", LINE_Y),
     HunkHeaders \o KeepLines("1", <<LINE_X, LINE_Y>>) \o ReplaceLine("2", LINE_Y, LINE_X),
     HunkHeaders \o KeepLines("1", <<LINE_X, LINE_Y>>) \o ReplaceLine("3", LINE_X, LINE_Y),
     HunkHeaders \o KeepLines("1", <<LINE_X>>) \o AddLine("2", LINE_Y) \o KeepLines("2", <<LINE_Y>>),
     HunkHeaders \o AddLine("0", LINE_Y),
     HunkHeaders \o AddLine("1", LINE_Y),
     HunkHeaders \o AddLine("3", LINE_Y),
     HunkHeaders \o AddLine("4", LINE_Y),
     HunkHeaders \o AddLine("5", LINE_Y),
     HunkHeaders \o ReplaceLine("1", LINE_X, LINE_Y) \o AddLine("9", LINE_Y),
     HunkHeaders \o KeepLines("5", <<LINE_Y>>),
     HunkHeaders \o ReplaceLine("1", LINE_X, LINE_Y)}

HunkInputs ==
    DiffInputs
    \cup {DiffInput(t, d, pA, FALSE, <<>>) : t \in {T_XY, T_XYX, T_X_BLANK}, d \in HunkDiffs}

-----------------------------------------------------------------------------
\* The metadata parser on its own: inputs and the steps that apply it

\* the block split_agtag cuts out of a file whose payload lines are body
Block(body) == AGTAG_START \o <<NL>> \o body \o <<NL, AGTAG_END, NL>>

ParseInput(block) == [kind |-> "parse", block |-> block]

\* one block for every JSON text, one without JSON, and blocks whose first
\* "{" and last "}" span two texts
ParseInputs ==
    {ParseInput(Block(<<j>>)) : j \in JsonSyms}
    \cup {ParseInput(Block(<<"no json here">>)),
          ParseInput(Block(<<J_TWO, NL, J_ONE>>)),
          ParseInput(Block(<<J_AT_LIMIT, NL, J_BAD>>))}

\* deepest nesting of the values check_json_depth is tried on
MaxNesting == 12

\* the innermost containers tried: empty, or holding primitives only
Innermost == {JDict(<<>>), JList(<<>>), JDict(<<JPrim, JPrim>>), JList(<<JPrim>>)}

DepthInput(value) == [kind |-> "depth", value |-> value]

\* chains of n containers of each type around each innermost container, a
\* bare primitive, and a dict that holds chains of two lengths side by side
DepthInputs ==
    {DepthInput(Nest(type, n - 1, inner)) :
        type \in {"dict", "list", "mixed"}, n \in 1..MaxNesting, inner \in Innermost}
    \cup {DepthInput(JPrim)}
    \cup {DepthInput(JDict(<<JPrim, Nest("list", n - 2, JList(<<JPrim>>)), Nest("dict", 2, JPrim)>>)) :
            n \in 2..MaxNesting}

NoParseInput == [kind |-> "none"]
NoParseOutput == [status |-> "none"]
NoFocusInput == [kind |-> "none"]
NoFocusOutput == [status |-> "none"]

ParseApply ==
    /\ pOut.status = "none"
    /\ pIn.kind = "parse"
    /\ pOut' = [status |-> "done", out |-> parse_agtag_block(pIn.block)]
    /\ UNCHANGED <<pIn, storeVars, diffVars, focusVars, migrateVars, bulkVars>>

DepthApply ==
    /\ pOut.status = "none"
    /\ pIn.kind = "depth"
    /\ pOut' = [status |-> "done",
                out |-> [ok |-> check_json_depth(pIn.value, MAX_JSON_DEPTH, 0)]]
    /\ UNCHANGED <<pIn, storeVars, diffVars, focusVars, migrateVars, bulkVars>>

-----------------------------------------------------------------------------
\* FocusGraph (focus.py): breadth-first traversal of the stored edges

\* a row that a query does not find (fetchone() returning None); ids are >= 1
NoRow == [id |-> 0]

\* the strings the focus model compares, in Python's str order (code points)
StrOrder == <<"", "Base", "calls", "class", "function", "helper", "inherits", "main", "other">>

StrIndex(s) == CHOOSE k \in 1..Len(StrOrder) : StrOrder[k] = s

\* a < b on str
StrLess(a, b) == StrIndex(a) < StrIndex(b)

\* a < b on tuples of str of one length
RECURSIVE KeyLess(_, _)
KeyLess(a, b) ==
    IF a = <<>> \/ b = <<>> THEN FALSE
    ELSE IF Head(a) = Head(b) THEN KeyLess(Tail(a), Tail(b))
    ELSE StrLess(Head(a), Head(b))

\* list.sort(key=...) on pairs <<key, item>>: a stable sort, an item goes
\* before the first item of a greater key and after every item of an equal key
RECURSIVE InsertKeyed(_, _)
InsertKeyed(sorted, p) ==
    IF sorted = <<>> THEN <<p>>
    ELSE IF KeyLess(p[1], Head(sorted)[1]) THEN <<p>> \o sorted
    ELSE <<Head(sorted)>> \o InsertKeyed(Tail(sorted), p)

RECURSIVE SortKeyed(_, _)
SortKeyed(pairs, n) ==
    IF n = 0 THEN <<>> ELSE InsertKeyed(SortKeyed(pairs, n - 1), pairs[n])

list_sort(pairs) == [k \in 1..Len(pairs) |-> SortKeyed(pairs, Len(pairs))[k][2]]

\* x or ""
OrEmpty(x) == IF x = Null THEN "" ELSE x

\* SELECT ... FROM symbols WHERE repo_path = ? AND name = ? ORDER BY id ASC LIMIT 1
_symbol_by_name(symbols, repo_path, name) ==
    IF \A s \in symbols : ~(s.repo_path = repo_path /\ s.name = name) THEN NoRow
    ELSE CHOOSE s \in symbols :
            /\ s.repo_path = repo_path /\ s.name = name
            /\ \A r \in symbols : (r.repo_path = repo_path /\ r.name = name) => s.id <= r.id

\* SELECT ... FROM symbols WHERE id = ? (the cache holds rows of this same store)
_symbol_by_id(symbols, symbol_id) ==
    IF \A s \in symbols : s.id # symbol_id THEN NoRow
    ELSE CHOOSE s \in symbols : s.id = symbol_id

\* _edges_incident: the rows of edges touching symbol_id, in the order the
\* store yields them, less those the type filter leaves out
RECURSIVE _edges_incident_from(_, _, _, _)
_edges_incident_from(rows, symbol_id, include_types, i) ==
    IF i > Len(rows) THEN <<>>
    ELSE IF ~(rows[i].src_id = symbol_id \/ rows[i].dst_id = symbol_id)
    THEN _edges_incident_from(rows, symbol_id, include_types, i + 1)
    ELSE IF include_types # {} /\ rows[i].edge_type \notin include_types
    THEN _edges_incident_from(rows, symbol_id, include_types, i + 1)
    ELSE <<rows[i]>> \o _edges_incident_from(rows, symbol_id, include_types, i + 1)

\* the rows that leave symbol_id only
_edges_incident_outgoing(rows, symbol_id, include_types) ==
    LET leaves(row) == row.src_id = symbol_id
    IN SelectSeq(_edges_incident_from(rows, symbol_id, include_types, 1), leaves)

_edges_incident(rows, symbol_id, include_types) ==
    _edges_incident_from(rows, symbol_id, include_types, 1)

_serialize_primary(symbol) ==
    [id |-> symbol.id, repo_path |-> symbol.repo_path, name |-> symbol.name,
     kind |-> symbol.kind, l0_overview |-> symbol.l0_overview,
     l1_contract |-> symbol.l1_contract, start_line |-> symbol.start_line,
     end_line |-> symbol.end_line]

_serialize_neighbor(symbol) ==
    [id |-> symbol.id, repo_path |-> symbol.repo_path, name |-> symbol.name,
     kind |-> symbol.kind, l0_overview |-> symbol.l0_overview]

\* _serialize_edge on rows src and dst that exist
_serialize_edge(edge, src, dst) ==
    [type |-> edge.edge_type,
     source |-> [id |-> src.id, name |-> src.name, repo_path |-> src.repo_path],
     target |-> [id |-> dst.id, name |-> dst.name, repo_path |-> dst.repo_path]]

\* the key f"depth_{next_depth}" of a bucket
DepthKey(next_depth) == <<"depth_", next_depth>>

\* the locals of get_context as its loop starts
StartTraversal(symbol) ==
    [visited |-> {symbol.id}, queue |-> <<<<symbol.id, 0>>>>, edges_seen |-> {},
     edges_payload |-> <<>>, neighbors_by_depth |-> <<>>]

\* an edge kept each time it is read
SeeEdge_again(st, symbols, edge) ==
    IF _symbol_by_id(symbols, edge.src_id) = NoRow \/ _symbol_by_id(symbols, edge.dst_id) = NoRow
    THEN st
    ELSE [st EXCEPT !.edges_payload =
                        Append(@, _serialize_edge(edge, _symbol_by_id(symbols, edge.src_id),
                                                  _symbol_by_id(symbols, edge.dst_id))),
                    !.edges_seen = @ \cup {edge}]

\* lines 55-60: an edge not seen before is serialized and kept, unless one of
\* its ends is not a stored symbol
SeeEdge(st, symbols, edge) ==
    IF edge \in st.edges_seen THEN st
    ELSE IF _symbol_by_id(symbols, edge.src_id) = NoRow \/ _symbol_by_id(symbols, edge.dst_id) = NoRow
    THEN st
    ELSE [st EXCEPT !.edges_payload =
                        Append(@, _serialize_edge(edge, _symbol_by_id(symbols, edge.src_id),
                                                  _symbol_by_id(symbols, edge.dst_id))),
                    !.edges_seen = @ \cup {edge}]

\* neighbors_by_depth.setdefault(key, []).append(item); the dict is kept as
\* the sequence of its <<key, bucket>> entries in insertion order
AppendToBucket(entries, key, item) ==
    IF \E k \in 1..Len(entries) : entries[k][1] = key
    THEN [k \in 1..Len(entries) |->
            IF entries[k][1] = key THEN <<key, Append(entries[k][2], item)>> ELSE entries[k]]
    ELSE Append(entries, <<key, <<item>>>>)

\* an admission that does not look at visited
AdmitNeighbor_revisiting(st, symbols, repo_path, depth, neighbor_id, next_depth) ==
    IF _symbol_by_id(symbols, neighbor_id) = NoRow THEN st
    ELSE IF _symbol_by_id(symbols, neighbor_id).repo_path # repo_path THEN st
    ELSE IF next_depth > depth THEN st
    ELSE [st EXCEPT !.visited = @ \cup {neighbor_id},
                    !.queue = Append(@, <<neighbor_id, next_depth>>),
                    !.neighbors_by_depth =
                        AppendToBucket(@, DepthKey(next_depth),
                                       _serialize_neighbor(_symbol_by_id(symbols, neighbor_id)))]

\* lines 65-76: the other end of the edge joins the bucket of next_depth if it
\* is unvisited, stored, of the same file and within depth
AdmitNeighbor(st, symbols, repo_path, depth, neighbor_id, next_depth) ==
    IF neighbor_id \in st.visited THEN st
    ELSE IF _symbol_by_id(symbols, neighbor_id) = NoRow THEN st
    ELSE IF _symbol_by_id(symbols, neighbor_id).repo_path # repo_path THEN st
    ELSE IF next_depth > depth THEN st
    ELSE [st EXCEPT !.visited = @ \cup {neighbor_id},
                    !.queue = Append(@, <<neighbor_id, next_depth>>),
                    !.neighbors_by_depth =
                        AppendToBucket(@, DepthKey(next_depth),
                                       _serialize_neighbor(_symbol_by_id(symbols, neighbor_id)))]

\* the body of "for edge in edges"
VisitEdge(st, symbols, repo_path, depth, current_id, current_depth, edge) ==
    AdmitNeighbor(SeeEdge(st, symbols, edge), symbols, repo_path, depth,
                  IF current_id = edge.src_id THEN edge.dst_id ELSE edge.src_id,
                  current_depth + 1)

RECURSIVE VisitEdges(_, _, _, _, _, _, _, _)
VisitEdges(st, symbols, repo_path, depth, current_id, current_depth, edges, i) ==
    IF i > Len(edges) THEN st
    ELSE VisitEdges(VisitEdge(st, symbols, repo_path, depth, current_id, current_depth, edges[i]),
                    symbols, repo_path, depth, current_id, current_depth, edges, i + 1)

\* "while queue": pop the head, skip it at the depth limit, else visit its edges
RECURSIVE Traverse(_, _, _, _, _, _)
Traverse(st, symbols, rows, repo_path, depth, type_set) ==
    IF st.queue = <<>> THEN st
    ELSE IF Head(st.queue)[2] >= depth
    THEN Traverse([st EXCEPT !.queue = Tail(@)], symbols, rows, repo_path, depth, type_set)
    ELSE Traverse(VisitEdges([st EXCEPT !.queue = Tail(@)], symbols, repo_path, depth,
                             Head(st.queue)[1], Head(st.queue)[2],
                             _edges_incident(rows, Head(st.queue)[1], type_set), 1),
                  symbols, rows, repo_path, depth, type_set)

\* lines 79-80: every bucket sorted on (name or "", kind or "")
SortBuckets(entries) ==
    [k \in 1..Len(entries) |->
        <<entries[k][1],
          list_sort([j \in 1..Len(entries[k][2]) |->
                        <<<<OrEmpty(entries[k][2][j].name), OrEmpty(entries[k][2][j].kind)>>,
                          entries[k][2][j]>>])>>]

\* lines 82-88: the edges sorted on (source name, target name, type)
SortEdges(edges_payload) ==
    list_sort([j \in 1..Len(edges_payload) |->
                 <<<<edges_payload[j].source.name, edges_payload[j].target.name,
                     edges_payload[j].type>>,
                   edges_payload[j]>>])

RECURSIVE BucketSizes(_, _)
BucketSizes(entries, i) ==
    IF i > Len(entries) THEN 0 ELSE Len(entries[i][2]) + BucketSizes(entries, i + 1)

\* max(int(key.split("_")[1]) for key in neighbors_by_depth), 0 without keys
MaxDepthReached(entries) ==
    IF entries = <<>> THEN 0
    ELSE CHOOSE m \in {entries[k][1][2] : k \in 1..Len(entries)} :
            \A k \in 1..Len(entries) : entries[k][1][2] <= m

\* lines 29-39: what a query of depth <= 0 returns
PrimaryOnly(symbol) ==
    [primary |-> _serialize_primary(symbol), neighbors |-> <<>>, edges |-> <<>>,
     stats |-> [symbols_returned |-> 1, edges_traversed |-> 0, max_depth_reached |-> 0]]

\* a result whose symbol count is the size of visited plus one
ContextOf_counting_visited(symbol, st) ==
    [primary |-> _serialize_primary(symbol),
     neighbors |-> SortBuckets(st.neighbors_by_depth),
     edges |-> SortEdges(st.edges_payload),
     stats |-> [symbols_returned |-> 1 + Cardinality(st.visited),
                edges_traversed |-> Len(st.edges_payload),
                max_depth_reached |-> MaxDepthReached(st.neighbors_by_depth)]]

\* lines 78-104: what get_context returns once the traversal has ended in st
ContextOf(symbol, st) ==
    [primary |-> _serialize_primary(symbol),
     neighbors |-> SortBuckets(st.neighbors_by_depth),
     edges |-> SortEdges(st.edges_payload),
     stats |-> [symbols_returned |-> 1 + BucketSizes(st.neighbors_by_depth, 1),
                edges_traversed |-> Len(st.edges_payload),
                max_depth_reached |-> MaxDepthReached(st.neighbors_by_depth)]]

\* get_context with depth 0 taken as "one hop"
get_context_one_hop_at_zero(symbols, rows, repo_path, symbol_name, depth, include_types) ==
    IF _symbol_by_name(symbols, repo_path, symbol_name) = NoRow
    THEN [error |-> "symbol_not_found", symbol |-> symbol_name, repo_path |-> repo_path]
    ELSE IF depth < 0 THEN PrimaryOnly(_symbol_by_name(symbols, repo_path, symbol_name))
    ELSE ContextOf(_symbol_by_name(symbols, repo_path, symbol_name),
                   Traverse(StartTraversal(_symbol_by_name(symbols, repo_path, symbol_name)),
                            symbols, rows, repo_path, depth + 1, {t \in include_types : t # ""}))

\* FocusGraph.get_context over the rows of symbols (a set: every query on them
\* is by id or ordered by id) and the rows of edges in the order the store
\* yields them; include_types is the set of the names passed, {} for None
get_context(symbols, rows, repo_path, symbol_name, depth, include_types) ==
    IF _symbol_by_name(symbols, repo_path, symbol_name) = NoRow
    THEN [error |-> "symbol_not_found", symbol |-> symbol_name, repo_path |-> repo_path]
    ELSE IF depth <= 0 THEN PrimaryOnly(_symbol_by_name(symbols, repo_path, symbol_name))
    ELSE ContextOf(_symbol_by_name(symbols, repo_path, symbol_name),
                   Traverse(StartTraversal(_symbol_by_name(symbols, repo_path, symbol_name)),
                            symbols, rows, repo_path, depth, {t \in include_types : t # ""}))

-----------------------------------------------------------------------------
\* The focus and zoom commands (core.py)

CTX == "ctx://"
SEP == "::"
AT == "@"
HASH_MARK == "#"
LEVEL_MARK == "#l"
COMMA == ","
ANY == "ANY"

\* the positions <<i, j>> of a "::" and an "@" at which the pattern
\* ctx://(.+?)::(.+?)@([^#]+) matches: both groups non-empty and free of
\* newlines, and one character that is not "#" after the "@"
HandleSplits(handle) ==
    {p \in (3..Len(handle)) \X (5..Len(handle)) :
        /\ handle[p[1]] = SEP
        /\ handle[p[2]] = AT
        /\ p[2] >= p[1] + 2
        /\ p[2] < Len(handle)
        /\ handle[p[2] + 1] \notin {HASH_MARK, LEVEL_MARK}
        /\ \A k \in (2..(p[1] - 1)) \cup ((p[1] + 1)..(p[2] - 1)) : handle[k] # NL}

\* the split the lazy groups settle on: the first "::", then the first "@"
HandleSplit(handle) ==
    CHOOSE p \in HandleSplits(handle) :
        \A q \in HandleSplits(handle) : p[1] < q[1] \/ (p[1] = q[1] /\ p[2] <= q[2])

\* number of characters matched by [^#]+ from position i
RECURSIVE HashRun(_, _)
HashRun(s, i) ==
    IF i <= Len(s) /\ s[i] \notin {HASH_MARK, LEVEL_MARK} THEN 1 + HashRun(s, i + 1) ELSE 0

\* group 4 of the pattern, (?:#l(\d+))?, after a hash ending before position i
HandleLevel(handle, i) ==
    IF i <= Len(handle) /\ handle[i] = LEVEL_MARK /\ DigitRun(handle, i + 1) > 0
    THEN <<IntOf(handle, i + 1, DigitRun(handle, i + 1))>>
    ELSE <<>>

HandleParts(handle, i, j) ==
    [ok |-> TRUE,
     repo_path |-> SubSeq(handle, 2, i - 1),
     symbol |-> SubSeq(handle, i + 1, j - 1),
     hash |-> SubSeq(handle, j + 1, j + HashRun(handle, j + 1)),
     level |-> HandleLevel(handle, j + 1 + HashRun(handle, j + 1))]

\* parse_handle: the parts of the handle, or the ValueError
parse_handle(handle) ==
    IF handle = <<>> \/ handle[1] # CTX \/ HandleSplits(handle) = {} THEN Fail("Invalid handle")
    ELSE HandleParts(handle, HandleSplit(handle)[1], HandleSplit(handle)[2])

\* str.lower() on the words of handle hashes
LowerWord(w) ==
    CASE w = "ANY" -> "any"
      [] w = "Any" -> "any"
      [] w = "SHA256:" -> "sha256:"
      [] w = "DEADBEEF" -> "deadbeef"
      [] OTHER -> w

str_lower(t) == [k \in 1..Len(t) |-> LowerWord(t[k])]

\* the name a one-word text spells; a longer text is the name of no row
AsName(t) == IF Len(t) = 1 THEN t[1] ELSE "<text>"

RECURSIVE StripAll(_, _)
StripAll(parts, i) ==
    IF i > Len(parts) THEN <<>>
    ELSE (IF Strip(parts[i]) = <<>> THEN <<>> ELSE <<Strip(parts[i])>>) \o StripAll(parts, i + 1)

\* [t.strip() for t in types_filter.split(",") if t.strip()]
IncludeTypes(types_filter) == StripAll(Split(types_filter, COMMA), 1)

\* what a command prints and its exit code
Printed(code, out) == [exit |-> code, out |-> out]

\* focus once the context is back from get_context
focus_result(handle, depth, include_types, context) ==
    IF "error" \in DOMAIN context THEN Printed(2, context)
    ELSE Printed(0, [handle |-> handle, depth |-> depth, filters |-> include_types,
                     primary |-> context.primary, neighbors |-> context.neighbors,
                     edges |-> context.edges, stats |-> context.stats])

\* focus from its hash comparison on
focus_checked(d, handle, depth, include_types, h, file_row) ==
    IF h.hash # <<>> /\ str_lower(h.hash) # <<"sha256:", "any">> /\ file_row.file_hash # h.hash
    THEN Printed(2, [error |-> "hash_conflict", expected |-> file_row.file_hash,
                     handle_hash |-> h.hash])
    ELSE focus_result(handle, depth, include_types,
                      get_context(d.symbols, d.edges, h.repo_path, AsName(h.symbol), depth,
                                  {AsName(include_types[k]) : k \in 1..Len(include_types)}))

\* focus from the parsed handle on
focus_parsed(d, handle, depth, include_types, h) ==
    IF ~h.ok
    THEN Printed(2, [error |-> "handle_invalid",
                     hint |-> "Expected format ctx://path::symbol@sha256:HASH"])
    ELSE IF h.symbol = <<ANY>>
    THEN Printed(2, [error |-> "symbol_required",
                     hint |-> "Provide a concrete symbol in the handle (no ANY wildcard)."])
    ELSE IF \A r \in d.files : ~(r.repo_path = h.repo_path /\ r.db_state = "indexed")
    THEN Printed(2, [error |-> "not_indexed",
                     hint |-> "Ingest the file before requesting focus context."])
    ELSE focus_checked(d, handle, depth, include_types, h,
                       CHOOSE r \in d.files : r.repo_path = h.repo_path)

\* the focus command on the store d (its edges in the order they are yielded)
focus(d, handle, depth, types_filter) ==
    IF depth < 0 THEN Printed(2, [error |-> "bad_depth", hint |-> "Depth must be >= 0"])
    ELSE focus_parsed(d, handle, depth, IncludeTypes(types_filter), parse_handle(handle))

\* r["start_line"] or 1, r["end_line"] or len(lines)
LineOr(bound, default) == IF bound = <<>> \/ bound[1] = 0 THEN default ELSE bound[1]

\* the file slice of level 4, or the error of reading it
zoom_l4(dk, repo_path, r) ==
    IF ~DiskHas(dk, repo_path) THEN ("l4_error" :> "FileNotFoundError")
    ELSE ("l4" :> Join(<<NL>>,
                       Slice(splitlines(DiskRead(dk, repo_path)),
                             LineOr(r.start_line, 1) - 1,
                             LineOr(r.end_line, Len(splitlines(DiskRead(dk, repo_path)))))))

\* the data of a zoom at the given level from the row r
zoom_data(dk, repo_path, level, r) ==
    [l0 |-> r.l0_overview, l1 |-> r.l1_contract]
    @@ (IF level >= 2 THEN ("l2" :> r.l2_pseudocode) ELSE <<>>)
    @@ (IF level >= 3 THEN ("l3" :> IF r.l3_ast_json = Null THEN "{}" ELSE r.l3_ast_json) ELSE <<>>)
    @@ (IF level >= 4 THEN zoom_l4(dk, repo_path, r) ELSE <<>>)

\* the rows of SELECT ... FROM symbols WHERE repo_path=? AND (name=? OR ?='ANY')
zoom_rows(d, h) ==
    {r \in d.symbols : r.repo_path = h.repo_path /\ (r.name = AsName(h.symbol) \/ h.symbol = <<ANY>>)}

\* the zoom command when its query yields the row r, NoRow for no row
zoom(d, dk, handle, level, r) ==
    IF level < 0 \/ level > 4 THEN Printed(2, [error |-> "bad_level"])
    ELSE IF ~parse_handle(handle).ok THEN Printed(1, [uncaught |-> "ValueError"])
    ELSE IF r.id = NoRow.id
    THEN Printed(2, [error |-> "not_found", hint |-> "ingest or lower your expectations"])
    ELSE Printed(0, [handle |-> handle, level |-> level,
                     data |-> zoom_data(dk, parse_handle(handle).repo_path, level, r)])

-----------------------------------------------------------------------------
\* Focus and zoom on their own: stores, handles and the steps that run them

\* longest query depth and most edge rows of the stores tried
MaxFocusDepth == 2
MaxEdgeRows == 3

\* the text of the file the symbols below describe
F_TEXT == <<W_HELPER, NL, W_MAIN, NL, W_BASE, NL, W_DERIVED, NL>>

\* the symbols row upsert_symbols writes for a one-line symbol
FocusSymbol(id, repo_path, name, kind, line) ==
    SymbolRow(repo_path, Descriptor(name, kind, Range(line, line), "summary", Null), F_TEXT, id)

\* four symbols of one file, two of them of one name and kind, and a symbol
\* of another file
FocusSymbols ==
    {FocusSymbol(1, pA, "main", "function", 2),
     FocusSymbol(2, pA, "helper", "function", 1),
     FocusSymbol(3, pA, "helper", "function", 1),
     FocusSymbol(4, pA, "Base", "class", 3),
     FocusSymbol(5, pB, "other", "function", 1)}

FocusFiles ==
    {[repo_path |-> pA, file_hash |-> sha256_bytes(F_TEXT), db_state |-> "indexed"],
     [repo_path |-> pB, file_hash |-> sha256_bytes(F_TEXT), db_state |-> "indexed"]}

EdgeRow(src_id, dst_id, edge_type) == [src_id |-> src_id, dst_id |-> dst_id, edge_type |-> edge_type]

\* the edge rows the stores draw from: within the file, across files, and one
\* whose target is not stored
CandidateEdges ==
    <<EdgeRow(1, 2, "calls"), EdgeRow(1, 3, "calls"), EdgeRow(2, 4, "calls"),
      EdgeRow(4, 3, "inherits"), EdgeRow(1, 5, "calls"), EdgeRow(5, 4, "calls"),
      EdgeRow(4, 1, "inherits"), EdgeRow(3, 9, "calls")>>

\* the candidate rows of the given positions, in table order
RECURSIVE RowsAt(_, _)
RowsAt(positions, i) ==
    IF i > Len(CandidateEdges) THEN <<>>
    ELSE (IF i \in positions THEN <<CandidateEdges[i]>> ELSE <<>>) \o RowsAt(positions, i + 1)

FocusDb(positions) ==
    [files |-> FocusFiles, symbols |-> FocusSymbols, edges |-> RowsAt(positions, 1)]

FocusDbs ==
    {FocusDb(positions) :
        positions \in {S \in SUBSET (1..Len(CandidateEdges)) : Cardinality(S) <= MaxEdgeRows}}

HandleOf(repo_path, symbol, hash) == <<CTX>> \o repo_path \o <<SEP>> \o symbol \o <<AT>> \o hash

WILDCARD == <<"sha256:", "ANY">>
STALE == <<"sha256:", "deadbeef">>

\* --types values: none, one type, and one type among blanks and empty items
TypeFilters == {<<>>, <<"calls">>, <<SP, "inherits", COMMA, COMMA, SP>>}

FocusInput(d, dk, handle, depth, types_filter) ==
    [kind |-> "focus", db |-> d, disk |-> dk, handle |-> handle, depth |-> depth,
     types_filter |-> types_filter]

ZoomInput(d, dk, handle, level) ==
    [kind |-> "zoom", db |-> d, disk |-> dk, handle |-> handle, level |-> level]

FocusDisk == {[path |-> pA, text |-> F_TEXT]}

\* the same file after an edit the store has not seen
EditedDisk == {[path |-> pA, text |-> <<W_HELPER, NL, W_MAIN0, NL>>]}

\* traversals: every store, from three names, to every depth, under every filter
GraphInputs ==
    {FocusInput(d, FocusDisk, HandleOf(pA, <<name>>, WILDCARD), depth, types_filter) :
        d \in FocusDbs, name \in {"main", "helper", "ghost"},
        depth \in 0..MaxFocusDepth, types_filter \in TypeFilters}

\* handles: the recorded hash, the wildcard in three spellings, a stale hash
\* alone and before a level suffix or a "#", the symbol ANY, a file the store
\* does not hold, a symbol it does not hold, and texts that are no handle
Handles ==
    {HandleOf(pA, <<"main">>, sha256_bytes(F_TEXT)),
     HandleOf(pA, <<"main">>, WILDCARD),
     HandleOf(pA, <<"main">>, <<"sha256:", "any">>),
     HandleOf(pA, <<"main">>, <<"SHA256:", "Any">>),
     HandleOf(pA, <<"main">>, STALE),
     HandleOf(pA, <<"main">>, STALE \o <<LEVEL_MARK, "2">>),
     HandleOf(pA, <<"main">>, sha256_bytes(F_TEXT) \o <<HASH_MARK, "x">>),
     HandleOf(pA, <<ANY>>, STALE),
     HandleOf(pA, <<ANY>>, WILDCARD),
     HandleOf(<<"c", ".", "p", "y">>, <<"main">>, STALE),
     HandleOf(pA, <<"ghost">>, STALE),
     HandleOf(pA, <<"main">>, <<HASH_MARK>>),
     <<CTX>> \o pA \o <<AT>> \o WILDCARD,
     pA \o <<SEP, "main", AT>> \o WILDCARD}

HandleInputs ==
    {FocusInput(FocusDb({1, 3}), FocusDisk, handle, depth, <<>>) :
        handle \in Handles, depth \in {-1, 0, 1}}
    \cup {ZoomInput(FocusDb({1, 3}), dk, handle, level) :
            dk \in {FocusDisk, {}, EditedDisk}, handle \in Handles, level \in -1..5}

FocusInputs == GraphInputs \cup HandleInputs

\* the orders in which the store may yield the same edge rows
RowOrders(rows) ==
    {[k \in 1..Len(rows) |-> rows[p[k]]] : p \in Permutations(1..Len(rows))}

\* one run of the focus command
FocusApply ==
    /\ fOut.status = "none"
    /\ fIn.kind = "focus"
    /\ fOut' = [status |-> "done",
                out |-> focus(fIn.db, fIn.handle, fIn.depth, fIn.types_filter)]
    /\ UNCHANGED <<fIn, storeVars, diffVars, parseVars, migrateVars, bulkVars>>

\* a second run with the same arguments on the same rows, which the store
\* yields in any order
FocusRepeat ==
    /\ fOut.status = "done"
    /\ fIn.kind = "focus"
    /\ \E rows \in RowOrders(fIn.db.edges) :
          fOut' = [status |-> "repeated", out |-> fOut.out,
                   again |-> focus([fIn.db EXCEPT !.edges = rows], fIn.handle, fIn.depth,
                                   fIn.types_filter)]
    /\ UNCHANGED <<fIn, storeVars, diffVars, parseVars, migrateVars, bulkVars>>

\* the rows the LIMIT 1 query of zoom may yield: any matching row, else none
ZoomRows(d, handle) ==
    IF ~parse_handle(handle).ok \/ zoom_rows(d, parse_handle(handle)) = {} THEN {NoRow}
    ELSE zoom_rows(d, parse_handle(handle))

\* one run of the zoom command
ZoomApply ==
    /\ fOut.status = "none"
    /\ fIn.kind = "zoom"
    /\ \E r \in ZoomRows(fIn.db, fIn.handle) :
          fOut' = [status |-> "done", out |-> zoom(fIn.db, fIn.disk, fIn.handle, fIn.level, r)]
    /\ UNCHANGED <<fIn, storeVars, diffVars, parseVars, migrateVars, bulkVars>>

\* the store before any operation
-----------------------------------------------------------------------------
\* Schema migrations: MigrationRunner and the migrate command

\* the migration modules 001, 003, 004 and 005
AvailableVersions == {1, 3, 4, 5}

\* --target-version or --rollback not given
NoVersion == 0

\* migrate commands run one after another
MaxMigrateCalls == 3

\* records: versions in schema_migrations; schema: versions whose up step is
\* in effect; version_table: db_version exists
SchemaStore(records, schema, version_table) ==
    [records |-> records, schema |-> schema, version_table |-> version_table]

RECURSIVE Ascending(_)
\* the versions of a set, smallest first
Ascending(versions) ==
    IF versions = {} THEN <<>>
    ELSE LET least == CHOOSE v \in versions : \A w \in versions : v <= w
         IN <<least>> \o Ascending(versions \ {least})

\* get_applied_migrations: SELECT version FROM schema_migrations ORDER BY version
get_applied_migrations(store) == Ascending(store.records)

\* get_current_version: the highest recorded version, 0 if none
get_current_version(store) ==
    IF store.records = {} THEN 0
    ELSE CHOOSE v \in store.records : \A w \in store.records : w <= v

\* get_latest_version: the highest available version
get_latest_version == CHOOSE v \in AvailableVersions : \A w \in AvailableVersions : w <= v

\* get_pending_migrations(target): available, not recorded, at most target
get_pending_migrations(store, target) ==
    Ascending({v \in AvailableVersions :
                 v \notin store.records /\ (target = NoVersion \/ v <= target)})

\* the up step of a migration; 001 also creates db_version
Up(store, version) ==
    [store EXCEPT !.schema = @ \cup {version},
                  !.version_table = @ \/ version = 1]

\* the down step of a migration; 001 also drops db_version
Down(store, version) ==
    [store EXCEPT !.schema = @ \ {version},
                  !.version_table = @ /\ version # 1]

\* a runner that inserts the record before it runs the migration
apply_migration_record_first(store, version, up_ok) ==
    IF up_ok THEN [store |-> [Up(store, version) EXCEPT !.records = @ \cup {version}], raised |-> FALSE]
    ELSE [store |-> [store EXCEPT !.records = @ \cup {version}], raised |-> TRUE]

\* apply_migration: run the migration, then INSERT its record and commit
apply_migration(store, version, up_ok) ==
    IF up_ok THEN [store |-> [Up(store, version) EXCEPT !.records = @ \cup {version}], raised |-> FALSE]
    ELSE [store |-> store, raised |-> TRUE]

\* rollback(version): only the latest recorded version; down, then DELETE
rollback(store, version) ==
    IF store.records = {} \/ version # get_current_version(store)
    THEN [store |-> store, raised |-> TRUE]
    ELSE [store |-> [Down(store, version) EXCEPT !.records = @ \ {version}], raised |-> FALSE]

\* schema_migrations exists and symbols does not
legacy(store) == 1 \notin store.schema

\* a reset that does not look at the options
LegacyReset_always(store, dry_run, rollback_version) ==
    IF legacy(store)
    THEN [store EXCEPT !.records = {}, !.version_table = FALSE]
    ELSE store

\* migrate: DROP TABLE schema_migrations, db_version on a legacy store; the
\* runner's constructor then creates schema_migrations again, empty
LegacyReset(store, dry_run, rollback_version) ==
    IF legacy(store) /\ ~dry_run /\ rollback_version = NoVersion
    THEN [store EXCEPT !.records = {}, !.version_table = FALSE]
    ELSE store

\* migrate --dry-run: the pending list, with 001 put first on a legacy store
DryRunPending(store, target) ==
    IF legacy(store) /\ (\A i \in 1..Len(get_pending_migrations(store, target)) :
                               get_pending_migrations(store, target)[i] # 1)
    THEN <<1>> \o get_pending_migrations(store, target)
    ELSE get_pending_migrations(store, target)

\* the labels vA_to_vB of the migrations a run applied, as <<A, B>>
RECURSIVE MigrationLabels(_, _)
MigrationLabels(cursor, applied) ==
    IF applied = <<>> THEN <<>>
    ELSE <<<<cursor, Head(applied)>>>> \o MigrationLabels(Head(applied), Tail(applied))

NoMigrateStore == [store |-> SchemaStore({}, {}, FALSE), backups |-> {}]

NoMigrateRun == [pc |-> "none"]

\* the command line of a migrate run and the store it found
MigrateRun(next_pc, target, dry_run, rollback_version, before, started, queue, res) ==
    [pc |-> next_pc, target |-> target, dry_run |-> dry_run, rollback |-> rollback_version,
     pre |-> before, start |-> started, queue |-> queue, ran |-> <<>>, result |-> res]

\* migrate: options, legacy reset, rollback or dry run, pending, backup
migrate(m, calls_so_far, target, dry_run, rollback_version, backup_ok) ==
    LET store == m.store
        fresh == LegacyReset(store, dry_run, rollback_version)
        rolled == rollback(fresh, rollback_version)
        pending == get_pending_migrations(fresh, target)
        Ended(st, res) ==
            [mdb |-> [m EXCEPT !.store = st],
             mrun |-> MigrateRun("idle", target, dry_run, rollback_version, m, st, <<>>, res)
                        @@ [calls |-> calls_so_far + 1]]
    IN IF dry_run /\ rollback_version # NoVersion
       THEN Ended(store, [status |-> "error", error |-> "invalid_options"])
       ELSE IF rollback_version # NoVersion
       THEN IF rolled.raised
            THEN Ended(rolled.store, [status |-> "error", error |-> "rollback_failed"])
            ELSE [mdb |-> [m EXCEPT !.store = rolled.store],
                  mrun |-> [MigrateRun("idle", target, dry_run, rollback_version, m, fresh, <<>>,
                                       [status |-> "ok", rolled_back |-> rollback_version,
                                        current_version |-> get_current_version(rolled.store)])
                              EXCEPT !.ran = <<<<"down", rollback_version>>>>]
                             @@ [calls |-> calls_so_far + 1]]
       ELSE IF dry_run
       THEN Ended(fresh, [status |-> "ok", dry_run |-> TRUE,
                          current_version |-> get_current_version(fresh),
                          target_version |-> IF target # NoVersion THEN target
                                             ELSE get_latest_version,
                          pending_migrations |-> DryRunPending(fresh, target)])
       ELSE IF pending = <<>>
       THEN Ended(fresh, [status |-> "ok", message |-> "Database already up to date",
                          current_version |-> get_current_version(fresh),
                          migrations_applied |-> <<>>])
       ELSE IF ~backup_ok
       THEN Ended(fresh, [status |-> "raised", error |-> "OSError"])
       ELSE [mdb |-> [store |-> fresh, backups |-> m.backups \cup {fresh}],
             mrun |-> MigrateRun("applying", target, dry_run, rollback_version, m, fresh,
                                 pending, [status |-> "running"])
                        @@ [calls |-> calls_so_far + 1]]

CallsSoFar == IF mrun.pc = "none" THEN 0 ELSE mrun.calls

MigrateCall(target, dry_run, rollback_version, backup_ok) ==
    /\ mrun.pc \in {"none", "idle"}
    /\ CallsSoFar < MaxMigrateCalls
    /\ mdb' = migrate(mdb, CallsSoFar, target, dry_run, rollback_version, backup_ok).mdb
    /\ mrun' = migrate(mdb, CallsSoFar, target, dry_run, rollback_version, backup_ok).mrun
    /\ UNCHANGED <<odb, storeVars, diffVars, parseVars, focusVars, bulkVars>>

\* apply(target): the next pending migration goes through apply_migration
MigrateStep(up_ok) ==
    /\ mrun.pc = "applying"
    /\ mrun.queue # <<>>
    /\ LET out == apply_migration(mdb.store, Head(mrun.queue), up_ok) IN
       /\ mdb' = [mdb EXCEPT !.store = out.store]
       /\ mrun' = [mrun EXCEPT !.ran = Append(@, <<"up", Head(mrun.queue)>>),
                               !.queue = IF out.raised THEN <<>> ELSE Tail(@),
                               !.pc = IF out.raised THEN "idle" ELSE @,
                               !.result = IF out.raised
                                          THEN [status |-> "raised", error |-> "migration"]
                                          ELSE @]
    /\ UNCHANGED <<odb, storeVars, diffVars, parseVars, focusVars, bulkVars>>

\* apply(target) has returned: the command prints what it applied
MigrateDone ==
    /\ mrun.pc = "applying"
    /\ mrun.queue = <<>>
    /\ mrun' = [mrun EXCEPT !.pc = "idle",
                            !.result = [status |-> "ok",
                                        from_version |-> get_current_version(mrun.start),
                                        to_version |-> get_current_version(mdb.store),
                                        migrations_applied |->
                                            MigrationLabels(get_current_version(mrun.start),
                                                            [i \in 1..Len(mrun.ran) |-> mrun.ran[i][2]]),
                                        backup |-> mrun.start]]
    /\ UNCHANGED <<mdb, odb, storeVars, diffVars, parseVars, focusVars, bulkVars>>

\* a store ensure_db created, and the legacy stores of the dashboard
InitialStores ==
    {SchemaStore(AvailableVersions, AvailableVersions, TRUE),
     SchemaStore({1}, {}, FALSE),
     SchemaStore({1}, {}, TRUE)}

Targets == {NoVersion} \cup AvailableVersions \cup {2}

-----------------------------------------------------------------------------
\* Opening the database: ensure_db and the commands that only read

\* file: .agentdb/agent.sqlite exists; migrations_table: schema_migrations
\* exists in it; store: the records and the schema it holds
DbFile(file, migrations_table, store) ==
    [file |-> file, migrations_table |-> migrations_table, store |-> store]

\* a directory in which no command has run yet
NoDbFile == DbFile(FALSE, FALSE, SchemaStore({}, {}, FALSE))

\* MigrationRunner.__init__: CREATE TABLE IF NOT EXISTS schema_migrations, commit
MigrationRunner(d) == [d EXCEPT !.file = TRUE, !.migrations_table = TRUE]

RECURSIVE apply(_, _, _)
\* apply(): the pending migrations in ascending order, until one raises
apply(store, queue, failing) ==
    IF queue = <<>> THEN [store |-> store, raised |-> FALSE]
    ELSE LET out == apply_migration(store, Head(queue), Head(queue) # failing)
         IN IF out.raised THEN out ELSE apply(out.store, Tail(queue), failing)

\* an ensure_db that applies the migrations every time it opens the file
ensure_db_applying_always(d, failing) ==
    LET opened == MigrationRunner(d)
        applied == apply(opened.store, get_pending_migrations(opened.store, NoVersion), failing)
        ready == [opened EXCEPT !.store = applied.store]
    IN IF applied.raised THEN [db |-> ready, raised |-> "Exception"]
       ELSE IF get_pending_migrations(ready.store, NoVersion) # <<>>
       THEN [db |-> ready, raised |-> "RuntimeError"]
       ELSE [db |-> ready, raised |-> "none"]

\* ensure_db: connect, construct the runner, apply() when the file was not
\* there, RuntimeError when migrations are pending
ensure_db(d, failing) ==
    LET first == ~d.file
        opened == MigrationRunner(d)
        applied == IF first
                   THEN apply(opened.store, get_pending_migrations(opened.store, NoVersion), failing)
                   ELSE [store |-> opened.store, raised |-> FALSE]
        ready == [opened EXCEPT !.store = applied.store]
    IN IF applied.raised THEN [db |-> ready, raised |-> "Exception"]
       ELSE IF get_pending_migrations(ready.store, NoVersion) # <<>>
       THEN [db |-> ready, raised |-> "RuntimeError"]
       ELSE [db |-> ready, raised |-> "none"]

\* focus up to its first query: bad_depth, handle_invalid, ensure_db
focus_opening(d, depth, handle_ok, failing) ==
    LET opened == ensure_db(d, failing) IN
    IF depth < 0 THEN [db |-> d, out |-> [error |-> "bad_depth"]]
    ELSE IF ~handle_ok THEN [db |-> d, out |-> [error |-> "handle_invalid"]]
    ELSE IF opened.raised = "RuntimeError"
    THEN [db |-> opened.db, out |-> [error |-> "db_version_mismatch"]]
    ELSE IF opened.raised = "Exception"
    THEN [db |-> opened.db, out |-> [error |-> "db_unavailable"]]
    ELSE [db |-> opened.db, out |-> [queried |-> "files"]]

\* zoom up to its query: bad_level, ensure_db, parse_handle
zoom_opening(d, level, handle_ok, failing) ==
    LET opened == ensure_db(d, failing) IN
    IF level < 0 \/ level > 4 THEN [db |-> d, out |-> [error |-> "bad_level"]]
    ELSE IF opened.raised # "none" THEN [db |-> opened.db, out |-> [raised |-> opened.raised]]
    ELSE IF ~handle_ok THEN [db |-> opened.db, out |-> [raised |-> "ValueError"]]
    ELSE [db |-> opened.db, out |-> [queried |-> "symbols"]]

\* inventory up to its query: ensure_db
inventory_opening(d, failing) ==
    LET opened == ensure_db(d, failing) IN
    IF opened.raised # "none" THEN [db |-> opened.db, out |-> [raised |-> opened.raised]]
    ELSE [db |-> opened.db, out |-> [queried |-> "files"]]

\* migrate --dry-run: no_db_found, no DROP, the runner, the pending list
migrate_dry_run(d, target) ==
    IF ~d.file THEN [db |-> d, out |-> [error |-> "no_db_found"]]
    ELSE LET opened == MigrationRunner(d)
             was_legacy == d.migrations_table /\ legacy(d.store)
             fresh == LegacyReset(opened.store, TRUE, NoVersion)
         IN [db |-> [opened EXCEPT !.store = fresh],
             out |-> [dry_run |-> TRUE,
                      current_version |-> get_current_version(fresh),
                      target_version |-> IF target # NoVersion THEN target ELSE get_latest_version,
                      pending_migrations |->
                          IF was_legacy THEN DryRunPending(fresh, target)
                          ELSE get_pending_migrations(fresh, target),
                      backup |-> "None"]]

\* a command line, the file it found, the file it left and what it printed
OpenRun(cmd, args, before, res) ==
    [cmd |-> cmd, args |-> args, pre |-> before, db |-> res.db, out |-> res.out]

\* the file the next command finds
OpenNow == odb.db

OpenFocus(depth, handle_ok, failing) ==
    /\ odb' = OpenRun("focus", <<depth, handle_ok>>, OpenNow,
                     focus_opening(OpenNow, depth, handle_ok, failing))
    /\ UNCHANGED <<mdb, mrun, storeVars, diffVars, parseVars, focusVars, bulkVars>>

OpenZoom(level, handle_ok, failing) ==
    /\ odb' = OpenRun("zoom", <<level, handle_ok>>, OpenNow,
                     zoom_opening(OpenNow, level, handle_ok, failing))
    /\ UNCHANGED <<mdb, mrun, storeVars, diffVars, parseVars, focusVars, bulkVars>>

OpenInventory(failing) ==
    /\ odb' = OpenRun("inventory", <<>>, OpenNow, inventory_opening(OpenNow, failing))
    /\ UNCHANGED <<mdb, mrun, storeVars, diffVars, parseVars, focusVars, bulkVars>>

OpenMigrateDryRun(target) ==
    /\ odb' = OpenRun("migrate --dry-run", <<target>>, OpenNow,
                     migrate_dry_run(OpenNow, target))
    /\ UNCHANGED <<mdb, mrun, storeVars, diffVars, parseVars, focusVars, bulkVars>>

\* the stores migrate --target-version leaves: every version up to one applied
MigratedStores ==
    {SchemaStore({v \in AvailableVersions : v <= k}, {v \in AvailableVersions : v <= k}, TRUE) :
       k \in AvailableVersions}

\* no file yet, a file ensure_db or migrate wrote, and the legacy files
OpenFiles ==
    {NoDbFile} \cup {DbFile(TRUE, TRUE, st) : st \in InitialStores \cup MigratedStores}

-----------------------------------------------------------------------------
\* ingest --directory

pC == <<"c", ".", "p", "y">>
pOutside == <<".", ".", "/", "o", ".", "p", "y">>

\* a file whose bytes are not UTF-8, and one that cannot be opened
UNDECODABLE == <<"bytes that are not UTF-8">>
UNREADABLE == <<"no permission">>

T_ABYSS == FileText(<<<<W_HELPER>>, <<W_MAIN>>>>, J_ABYSS)

\* Path.read_text(encoding="utf-8"): the text, OSError, or UnicodeDecodeError
read_text(bytes) ==
    IF bytes = UNREADABLE THEN [ok |-> FALSE, raised |-> "OSError"]
    ELSE IF bytes = UNDECODABLE THEN [ok |-> FALSE, raised |-> "UnicodeDecodeError"]
    ELSE [ok |-> TRUE, text |-> bytes]

\* upsert_file, the ops_log row and the final commit, if the rebuild got there
ingest_committed(d, out, safe_path, content) ==
    IF out.pc = "idle" THEN [db |-> d, result |-> out.result]
    ELSE [db |-> LogOp(upsert_file(out.db, safe_path, sha256_bytes(content), "indexed"),
                       "ingest_file", safe_path),
          result |-> Success(safe_path, sha256_bytes(content))]

\* _ingest_file_content with write_to_disk=False, run to its final commit
ingest_in_place(d, safe_path, content) ==
    ingest_committed(d, _ingest_file_content(d, {}, safe_path, content), safe_path, content)

\* the file is added to the failures of the run
BulkFailed(d, run, path, kind) ==
    [db |-> d,
     run |-> [run EXCEPT !.pos = @ + 1,
                         !.failures = Append(@, [path |-> path, error |-> kind])]]

\* an exception the loop does not catch ends the command
BulkRaised(d, run, kind) ==
    [db |-> d, run |-> [run EXCEPT !.status = "raised", !.raised = kind]]

\* the loop body after _ingest_file_content: IngestError is caught
bulk_ingested(d, run, safe_path, done) ==
    IF done.result.status = "error" /\ done.result.error = "uncaught"
    THEN BulkRaised(d, run, done.result.hint)
    ELSE IF done.result.status = "error"
    THEN BulkFailed(d, run, safe_path, done.result.error)
    ELSE [db |-> done.db,
          run |-> [run EXCEPT !.pos = @ + 1, !.successes = Append(@, done.result)]]

\* the loop body after the path check and read_text: ValueError of the
\* check and OSError of the read are caught
bulk_checked(d, run, file, checked, read) ==
    IF ~checked.ok THEN BulkFailed(d, run, file.path, "unsafe_path")
    ELSE IF ~read.ok /\ read.raised = "OSError" THEN BulkFailed(d, run, file.path, "read_failed")
    ELSE IF ~read.ok THEN BulkRaised(d, run, read.raised)
    ELSE bulk_ingested(d, run, checked.path, ingest_in_place(d, checked.path, read.text))

\* one round of the loop over the files: the store, the two lists, and
\* whether an exception left the loop
ingest_directory_file(d, run, file) ==
    bulk_checked(d, run, file, ensure_repo_relative_path(file.path), read_text(file.bytes))

NoBulkRun == [status |-> "none"]

\* the sorted files of the directory and an empty report
BulkRun(files) ==
    [status |-> "running", files |-> files, pos |-> 1, successes |-> <<>>,
     failures |-> <<>>, raised |-> "", exit |-> 0]

\* the loop of ingest --directory takes the next file
BulkStep ==
    /\ bulk.status = "running"
    /\ bulk.pos <= Len(bulk.files)
    /\ \E out \in {ingest_directory_file(db, bulk, bulk.files[bulk.pos])} :
         /\ db' = out.db
         /\ bulk' = out.run
    /\ UNCHANGED <<disk, pc, call, pre, result, returned, calls,
                   diffVars, parseVars, focusVars, migrateVars>>

\* after the loop: the report is printed, exit code 2 if a file failed
BulkReport ==
    /\ bulk.status = "running"
    /\ bulk.pos > Len(bulk.files)
    /\ bulk' = [bulk EXCEPT !.status = "done",
                            !.exit = IF bulk.failures # <<>> THEN 2 ELSE 0]
    /\ UNCHANGED <<storeVars, diffVars, parseVars, focusVars, migrateVars>>

\* what a file of the directory may hold
BulkContents == {T_TWO, T_BARE, T_V2, T_RANGE, T_ABYSS, UNDECODABLE, UNREADABLE}

\* directories of three files, in the sorted order of _collect_directory_files
BulkInputs ==
    {BulkRun(<<[path |-> first, bytes |-> b1], [path |-> pB, bytes |-> b2],
               [path |-> pC, bytes |-> b3]>>) :
       first \in {pA, pOutside}, b1 \in BulkContents, b2 \in BulkContents, b3 \in BulkContents}

InitStore ==
    /\ db = EmptyDb
    /\ disk = {}
    /\ pc = "idle"
    /\ call = [op |-> "none"]
    /\ pre = [db |-> EmptyDb, disk |-> {}]
    /\ result = [status |-> "none"]
    /\ returned = {}
    /\ calls = 0

Init ==
    /\ InitStore
    /\ dIn = NoDiffInput
    /\ dOut = NoDiffOutput
    /\ dRun = NoDiffRun
    /\ odb = NoOpenRun
    /\ pIn = NoParseInput
    /\ pOut = NoParseOutput
    /\ fIn = NoFocusInput
    /\ fOut = NoFocusOutput
    /\ mdb = NoMigrateStore
    /\ mrun = NoMigrateRun
    /\ bulk = NoBulkRun

Next ==
    \/ \E path \in Paths : \E content \in IngestInputs(path) : IngestCall(path, content)
    \/ IngestFinish
    \/ \E path \in Paths : \E args \in PatchArgs(db, path) : PatchCall(path, args[1], args[2])
    \/ PatchFinish
    \/ Abort

Spec == Init /\ [][Next]_vars

\* ingest and patch under paths of every shape
NextPaths ==
    \/ \E path \in Paths \cup OtherPaths : \E content \in {T_TWO, T_BARE} : IngestCall(path, content)
    \/ IngestFinish
    \/ \E path \in Paths \cup OtherPaths : \E h \in HashInputs(pA) :
         \E stdin \in {D_CODE(pA), D_DROP(pA)} : PatchCall(path, h, stdin)
    \/ PatchFinish
    \/ Abort

SpecPaths == Init /\ [][NextPaths]_vars

\* ingest and patch that build the index of a text more than once
NextRebuild ==
    \/ \E path \in Paths : \E content \in RebuildIngests(path) : IngestCall(path, content)
    \/ IngestFinish
    \/ \E path \in Paths : \E args \in PatchArgsFrom(db, path, RebuildPatches(path)) :
         PatchCall(path, args[1], args[2])
    \/ PatchFinish
    \/ Abort

SpecRebuild == Init /\ [][NextRebuild]_vars

\* ingest and patch with inputs for every failure cause
NextKinds ==
    \/ \E path \in Paths : \E content \in KindIngests(path) : IngestCall(path, content)
    \/ IngestFinish
    \/ \E path \in Paths : \E args \in PatchArgsFrom(db, path, KindPatches(path)) :
         PatchCall(path, args[1], args[2])
    \/ PatchFinish
    \/ Abort

SpecKinds == Init /\ [][NextKinds]_vars

InitDiff ==
    /\ InitStore
    /\ dIn \in DiffInputs
    /\ dOut = NoDiffOutput
    /\ dRun = NoDiffRun
    /\ odb = NoOpenRun
    /\ pIn = NoParseInput
    /\ pOut = NoParseOutput
    /\ fIn = NoFocusInput
    /\ fOut = NoFocusOutput
    /\ mdb = NoMigrateStore
    /\ mrun = NoMigrateRun
    /\ bulk = NoBulkRun

NextDiff == DiffApply

SpecDiff == InitDiff /\ [][NextDiff]_vars

InitHunks ==
    /\ InitStore
    /\ dIn \in HunkInputs
    /\ dOut = NoDiffOutput
    /\ dRun = NoDiffRun
    /\ odb = NoOpenRun
    /\ pIn = NoParseInput
    /\ pOut = NoParseOutput
    /\ fIn = NoFocusInput
    /\ fOut = NoFocusOutput
    /\ mdb = NoMigrateStore
    /\ mrun = NoMigrateRun
    /\ bulk = NoBulkRun

NextHunks ==
    \/ DiffEnter
    \/ DiffOuterLine
    \/ DiffHunkLine
    \/ DiffReturn
    \/ DiffApply

SpecHunks == InitHunks /\ [][NextHunks]_vars

InitParse ==
    /\ InitStore
    /\ dIn = NoDiffInput
    /\ dOut = NoDiffOutput
    /\ dRun = NoDiffRun
    /\ odb = NoOpenRun
    /\ pIn \in ParseInputs \cup DepthInputs
    /\ pOut = NoParseOutput
    /\ fIn = NoFocusInput
    /\ fOut = NoFocusOutput
    /\ mdb = NoMigrateStore
    /\ mrun = NoMigrateRun
    /\ bulk = NoBulkRun

NextParse == ParseApply \/ DepthApply

SpecParse == InitParse /\ [][NextParse]_vars

InitFocus ==
    /\ InitStore
    /\ dIn = NoDiffInput
    /\ dOut = NoDiffOutput
    /\ dRun = NoDiffRun
    /\ odb = NoOpenRun
    /\ pIn = NoParseInput
    /\ pOut = NoParseOutput
    /\ fIn \in FocusInputs
    /\ fOut = NoFocusOutput
    /\ mdb = NoMigrateStore
    /\ mrun = NoMigrateRun
    /\ bulk = NoBulkRun

NextFocus == FocusApply \/ FocusRepeat \/ ZoomApply

SpecFocus == InitFocus /\ [][NextFocus]_vars

\* the edge rows are such as ingest and patch write: between two stored
\* symbols of one file
EdgesOfOneFile(d) ==
    \A k \in 1..Len(d.edges) :
        \E src, dst \in d.symbols :
            /\ src.id = d.edges[k].src_id
            /\ dst.id = d.edges[k].dst_id
            /\ src.id # dst.id
            /\ src.repo_path = dst.repo_path

InitFocusStored ==
    /\ InitStore
    /\ dIn = NoDiffInput
    /\ dOut = NoDiffOutput
    /\ dRun = NoDiffRun
    /\ odb = NoOpenRun
    /\ pIn = NoParseInput
    /\ pOut = NoParseOutput
    /\ fIn \in {x \in FocusInputs : EdgesOfOneFile(x.db)}
    /\ fOut = NoFocusOutput
    /\ mdb = NoMigrateStore
    /\ mrun = NoMigrateRun
    /\ bulk = NoBulkRun

SpecFocusStored == InitFocusStored /\ [][NextFocus]_vars

InitMigrate ==
    /\ InitStore
    /\ dIn = NoDiffInput
    /\ dOut = NoDiffOutput
    /\ dRun = NoDiffRun
    /\ odb = NoOpenRun
    /\ pIn = NoParseInput
    /\ pOut = NoParseOutput
    /\ fIn = NoFocusInput
    /\ fOut = NoFocusOutput
    /\ mdb \in {[store |-> st, backups |-> {}] : st \in InitialStores}
    /\ mrun = NoMigrateRun
    /\ bulk = NoBulkRun

NextMigrate ==
    \/ \E target \in Targets : \E dry_run \in BOOLEAN : \E rollback_version \in {NoVersion} \cup AvailableVersions :
         \E backup_ok \in BOOLEAN : MigrateCall(target, dry_run, rollback_version, backup_ok)
    \/ \E up_ok \in BOOLEAN : MigrateStep(up_ok)
    \/ MigrateDone

SpecMigrate == InitMigrate /\ [][NextMigrate]_vars

InitOpen ==
    /\ InitStore
    /\ dIn = NoDiffInput
    /\ dOut = NoDiffOutput
    /\ dRun = NoDiffRun
    /\ pIn = NoParseInput
    /\ pOut = NoParseOutput
    /\ fIn = NoFocusInput
    /\ fOut = NoFocusOutput
    /\ mdb = NoMigrateStore
    /\ mrun = NoMigrateRun
    /\ odb \in {[cmd |-> "start", db |-> d] : d \in OpenFiles}
    /\ bulk = NoBulkRun

NextOpen ==
    \/ \E depth \in -1..MaxFocusDepth : \E handle_ok \in BOOLEAN : \E failing \in {NoVersion} \cup AvailableVersions :
         OpenFocus(depth, handle_ok, failing)
    \/ \E level \in -1..5 : \E handle_ok \in BOOLEAN : \E failing \in {NoVersion} \cup AvailableVersions :
         OpenZoom(level, handle_ok, failing)
    \/ \E failing \in {NoVersion} \cup AvailableVersions : OpenInventory(failing)
    \/ \E target \in Targets : OpenMigrateDryRun(target)

SpecOpen == InitOpen /\ [][NextOpen]_vars

InitBulk ==
    /\ InitStore
    /\ dIn = NoDiffInput
    /\ dOut = NoDiffOutput
    /\ dRun = NoDiffRun
    /\ odb = NoOpenRun
    /\ pIn = NoParseInput
    /\ pOut = NoParseOutput
    /\ fIn = NoFocusInput
    /\ fOut = NoFocusOutput
    /\ mdb = NoMigrateStore
    /\ mrun = NoMigrateRun
    /\ bulk \in BulkInputs

NextBulk == BulkStep \/ BulkReport

SpecBulk == InitBulk /\ [][NextBulk]_vars

-----------------------------------------------------------------------------
\* Properties of ingest and patch

SymbolsOf(d, path) == {s \in d.symbols : s.repo_path = path}
FtsOf(d, path) == {f \in d.symbols_fts : f.repo_path = path}
EdgesOf(d, path) ==
    {e \in d.edges : \E s \in SymbolsOf(d, path) : e.src_id = s.id \/ e.dst_id = s.id}

\* C1: a patch of an indexed path whose recorded hash differs from
\* expected_hash fails with hash_conflict and leaves every row of the store
\* and the disk as they were before the call.
C1_HashConflictLeavesStore ==
    (/\ call.op = "patch"
     /\ StateOf(pre.db, call.path) = "indexed"
     /\ HashOf(pre.db, call.path) # call.hash_before)
    => /\ result.status = "error"
       /\ result.error = "hash_conflict"
       /\ db = pre.db
       /\ disk = pre.disk

C1_Witness ==
    /\ call.op = "patch"
    /\ result.status = "error"
    /\ result.error = "hash_conflict"
    /\ SymbolsOf(pre.db, call.path) # {}
    /\ pre.db.edges # {}
    /\ DiskHas(pre.disk, call.path)

\* C2: ingest succeeds only from state missing; on an indexed path it fails
\* with indexed_file_rejects_full_content whatever the content, and the
\* recorded hash, the symbols, the edges and the disk stay as they were.
C2_IngestOnlyFromMissing ==
    /\ (call.op = "ingest" /\ StateOf(pre.db, call.path) = "indexed")
         => /\ result.status = "error"
            /\ result.error = "indexed_file_rejects_full_content"
            /\ db = pre.db
            /\ disk = pre.disk
    /\ (call.op = "ingest" /\ result.status \in {"ok", "running"})
         => StateOf(pre.db, call.path) = "missing"

\* the content ingested again is the very content the path was indexed from
C2_Witness ==
    /\ call.op = "ingest"
    /\ result.status = "error"
    /\ result.error = "indexed_file_rejects_full_content"
    /\ HashOf(pre.db, call.path) = sha256_bytes(call.content)
    /\ SymbolsOf(pre.db, call.path) # {}

\* C3: a path's state only goes from missing to indexed, by a successful
\* ingest of it, or stays what it is; an indexed path is never missing again.
C3_StateTransitions ==
    [][\A p \in Paths :
          /\ StateOf(db, p) = "indexed" => StateOf(db', p) = "indexed"
          /\ (StateOf(db, p) = "missing" /\ StateOf(db', p) # "missing")
               => /\ StateOf(db', p) = "indexed"
                  /\ call'.op = "ingest"
                  /\ call'.path = p
                  /\ result'.status = "ok"]_vars

\* an indexed path that a successful patch has left indexed
C3_Witness ==
    /\ call.op = "patch"
    /\ result.status = "ok"
    /\ StateOf(pre.db, call.path) = "indexed"
    /\ StateOf(db, call.path) = "indexed"

\* the text a recorded hash is the digest of
ContentOfHash(h) == Tail(h)

\* the rows of path are exactly the descriptors of the AGTAG block of content:
\* one row per descriptor, with its name, kind, bounds and levels
DescribedBy(rows, content) ==
    LET sp == split_agtag(content)
        descs == IF sp.has_block /\ parse_agtag_block(sp.block).ok
                 THEN parse_agtag_block(sp.block).agtag.symbols ELSE <<>>
        matches(r, s) ==
            /\ r.name = s.name
            /\ r.kind = s.kind
            /\ <<r.start_line, r.end_line>> = (IF s.lines = <<>> THEN <<<<>>, <<>>>> ELSE s.lines)
            /\ r.l0_overview = s.summary_l0
            /\ r.l1_contract = s.contract_l1
            /\ r.l2_pseudocode = s.pseudocode_l2
    IN /\ Cardinality(rows) = Len(descs)
       /\ \A k \in 1..Len(descs) : \E r \in rows : matches(r, descs[k])
       /\ \A r \in rows : \E k \in 1..Len(descs) : matches(r, descs[k])

\* the calls/inherits edges the code part of content gives between rows
EdgesFrom(rows, path, content) ==
    IF EndsWith(path, <<".", "p", "y">>)
    THEN _build_symbol_edges(ast_parse(split_agtag(content).code), rows)
    ELSE {}

\* the content a finished operation has indexed
NewContent == IF call.op = "ingest" THEN call.content ELSE DiskRead(disk, call.path)

\* C4 (as claimed): no committed store state has Symbol rows of a content
\* whose hash the TrackedFile of that path does not hold, or has Symbol rows
\* for a path without a TrackedFile.
C4_SymbolsAndHashCommitTogether ==
    \A p \in Paths :
        SymbolsOf(db, p) # {}
          => /\ StateOf(db, p) = "indexed"
             /\ DescribedBy(SymbolsOf(db, p), ContentOfHash(HashOf(db, p)))

\* C5 (as claimed): whenever ingest or patch returns an error, the store and
\* the disk are what they were before the call.
C5_ErrorLeavesStoreAndDisk ==
    result.status = "error" => (db = pre.db /\ disk = pre.disk)

\* C6: after a successful ingest or patch the Symbol rows of the path are
\* exactly the descriptors of the new content's metadata block, its full-text
\* rows are those of these Symbol rows, its edges are those the new content
\* gives, and no edge points at a Symbol row that is gone.
C6_SymbolsRebuilt ==
    result.status = "ok"
      => /\ DescribedBy(SymbolsOf(db, call.path), NewContent)
         /\ FtsOf(db, call.path) = {FtsRow(s) : s \in SymbolsOf(db, call.path)}
         /\ EdgesOf(db, call.path) = EdgesFrom(SymbolsOf(db, call.path), call.path, NewContent)
         /\ \A e \in db.edges : \E s, t \in db.symbols : e.src_id = s.id /\ e.dst_id = t.id

\* a patch that took an edge away and changed a level
C6_Witness ==
    /\ call.op = "patch"
    /\ result.status = "ok"
    /\ EdgesOf(pre.db, call.path) # {}
    /\ EdgesOf(db, call.path) = {}
    /\ SymbolsOf(db, call.path) # {}
    /\ SymbolsOf(db, call.path) # SymbolsOf(pre.db, call.path)

\* C7: the hash a successful ingest or patch returns is the hash recorded for
\* the path; a patch of an indexed path fails with hash_conflict exactly when
\* the hash it declares is not the recorded one.
C7_ReturnedHashIsRecorded ==
    /\ result.status = "ok"
         => /\ StateOf(db, result.path) = "indexed"
            /\ HashOf(db, result.path) = result.file_hash
    /\ \A p \in Paths : StateOf(db, p) = "indexed" => <<p, HashOf(db, p)>> \in returned
    /\ (call.op = "patch" /\ pc = "idle" /\ result.status # "aborted"
        /\ StateOf(pre.db, call.path) = "indexed")
         => ((result.status = "error" /\ result.error = "hash_conflict")
               <=> call.hash_before # HashOf(pre.db, call.path))

\* a patch declaring a hash that was returned, and recorded, before another
\* patch changed the content
C7_Witness ==
    /\ call.op = "patch"
    /\ result.status = "error"
    /\ result.error = "hash_conflict"
    /\ <<call.path, call.hash_before>> \in returned
    /\ <<call.path, HashOf(db, call.path)>> \in returned
    /\ \E op \in 1..Len(db.ops_log) : db.ops_log[op] = [op |-> "patch", path |-> call.path]

\* the final-file assertion of the last patch call and the text its diff gives
\* on the file the call found
CallFinal == extract_final_file_payload(call.stdin)
CallApplied ==
    apply_unified_diff_to_text(DiskRead(pre.disk, call.path),
                               DiffToApply(call.stdin, CallFinal), call.path)

\* the last call is a patch with a final-file assertion that got as far as
\* having its diff applied
PatchWithFinalApplied ==
    /\ call.op = "patch"
    /\ StateOf(pre.db, call.path) = "indexed"
    /\ HashOf(pre.db, call.path) = call.hash_before
    /\ DiskHas(pre.disk, call.path)
    /\ CallFinal.ok
    /\ CallFinal.has
    /\ CallApplied.ok

\* equal once every trailing newline is dropped
RECURSIVE DropTrailingNewlines(_)
DropTrailingNewlines(t) ==
    IF t # <<>> /\ t[Len(t)] = NL THEN DropTrailingNewlines(SubSeq(t, 1, Len(t) - 1)) ELSE t

FinalAgrees == DropTrailingNewlines(CallApplied.text) = DropTrailingNewlines(CallFinal.final_file)

\* what C11 says of a patch with a final-file assertion, for an error kind
FinalAssertionChecked(kind) ==
    PatchWithFinalApplied
      => /\ result.status \in {"ok", "running"} => FinalAgrees
         /\ ~FinalAgrees => /\ result.status = "error"
                            /\ result.error = kind
                            /\ db = pre.db
                            /\ disk = pre.disk

\* C11 (amended): a patch with a final-file assertion succeeds only if the
\* patched text equals the asserted file up to trailing newlines; otherwise
\* it fails with final_file_mismatch and leaves the disk and the store as
\* they were.
C11_FinalFileMismatch == FinalAssertionChecked("final_file_mismatch")

\* a patch whose final file differs from what its diff gives
C11_Witness ==
    /\ PatchWithFinalApplied
    /\ ~FinalAgrees
    /\ result.status = "error"
    /\ disk = pre.disk

\* C11 (as claimed): the same, the error kind being final_mismatch.
C11_FinalMismatch == FinalAssertionChecked("final_mismatch")

\* C12: every Edge row has type calls or inherits, joins two different
\* Symbol rows, both existing and both of one path, and no two Edge rows have
\* the same source, target and type.
C12_EdgesWellFormed ==
    /\ \A s, t \in db.symbols : s.id = t.id => s = t
    /\ \A e \in db.edges :
         /\ e.edge_type \in {"calls", "inherits"}
         /\ e.src_id # e.dst_id
         /\ \E s, t \in db.symbols :
              s.id = e.src_id /\ t.id = e.dst_id /\ s.repo_path = t.repo_path
    /\ \A e, f \in db.edges :
         <<e.src_id, e.dst_id, e.edge_type>> = <<f.src_id, f.dst_id, f.edge_type>> => e = f

\* a patch made main call itself where it called helper, another path holds
\* symbols, and no edge is left
C12_Witness ==
    /\ call.op = "patch"
    /\ call.stdin = D_REC(call.path)
    /\ result.status = "ok"
    /\ EdgesOf(pre.db, call.path) # {}
    /\ db.edges = {}
    /\ \E s \in db.symbols : s.repo_path # call.path

\* the bounds a Symbol row or a descriptor carries lie in a text of n lines
BoundsWithin(start_line, end_line, n) ==
    /\ start_line # <<>> => (1 <= start_line[1] /\ start_line[1] <= n)
    /\ end_line # <<>> => (1 <= end_line[1] /\ end_line[1] <= n)
    /\ (start_line # <<>> /\ end_line # <<>>) => start_line[1] <= end_line[1]

\* the metadata of an ingested content that the parser accepts, as a set
IngestedMetadata ==
    IF call.op = "ingest" /\ StateOf(pre.db, call.path) = "missing"
       /\ split_agtag(call.content).has_block
       /\ parse_agtag_block(split_agtag(call.content).block).ok
    THEN {parse_agtag_block(split_agtag(call.content).block).agtag}
    ELSE {}

\* C13 (as claimed): after a successful ingest or patch every Symbol row of
\* the path that carries a bound has 1 <= start_line <= end_line <= the number
\* of lines of the code it was indexed from; an ingest whose metadata has a
\* descriptor violating this fails and stores no row.
C13_LineBounds ==
    /\ result.status = "ok"
         => \A s \in SymbolsOf(db, call.path) :
              BoundsWithin(s.start_line, s.end_line,
                           Len(splitlines(split_agtag(NewContent).code)))
    /\ \A agtag \in IngestedMetadata :
         (\E k \in 1..Len(agtag.symbols) :
             ~BoundsWithin(LinesOf(agtag.symbols[k])[1], LinesOf(agtag.symbols[k])[2],
                           Len(splitlines(split_agtag(call.content).code))))
           => (result.status = "error" /\ db = pre.db)

-----------------------------------------------------------------------------
\* Properties of the metadata parser

\* container nesting depth of a JSON value: 0 for a primitive, else one more
\* than the deepest member
RECURSIVE ContainerDepth(_)
ContainerDepth(v) ==
    IF v.t = "prim" THEN 0
    ELSE 1 + (IF v.kids = <<>> THEN 0
              ELSE LET ds == {ContainerDepth(v.kids[k]) : k \in 1..Len(v.kids)}
                   IN CHOOSE m \in ds : \A n \in ds : n <= m)

\* the text of a block from its first "{" to its last "}"
Payload(block) ==
    LET at == {k \in 1..Len(block) : block[k] \in JsonSyms}
    IN SubSeq(block, CHOOSE k \in at : \A j \in at : k <= j,
                     CHOOSE k \in at : \A j \in at : j <= k)

HasPayload(block) == \E k \in 1..Len(block) : block[k] \in JsonSyms

\* size of a text in UTF-8 bytes
RECURSIVE ByteLen(_)
ByteLen(t) ==
    IF t = <<>> THEN 0
    ELSE (IF Head(t) \in JsonSyms THEN JsonDocs[Head(t)].bytes ELSE 1) + ByteLen(Tail(t))

\* size of a text in characters
RECURSIVE CharCount(_)
CharCount(t) ==
    IF t = <<>> THEN 0
    ELSE (IF Head(t) \in JsonSyms THEN JsonDocs[Head(t)].chars ELSE 1) + CharCount(Tail(t))

PayloadWellFormed(block) == Len(Payload(block)) = 1 /\ JsonDocs[Payload(block)[1]].wellformed

\* a well-formed payload nested deeper than the ceiling
PayloadTooDeep(block) ==
    \/ JsonDocs[Payload(block)[1]].recursion
    \/ ContainerDepth(JsonDocs[Payload(block)[1]].value) > MAX_JSON_DEPTH

ParseFailsWith(kind) == ~pOut.out.ok /\ pOut.out.error = kind

\* C14 (as claimed): the parser reports the first check that fails in the
\* order missing JSON, size, JSON parse, nesting depth, schema: an oversized
\* payload fails too_large well-formed or not, and a well-formed payload that
\* is too deep and schema-invalid fails too_deep.
C14_CheckOrder ==
    (pOut.status = "done" /\ pIn.kind = "parse")
      => IF ~HasPayload(pIn.block) THEN ParseFailsWith("missing_json")
         ELSE IF CharCount(Payload(pIn.block)) > MAX_AGTAG_SIZE THEN ParseFailsWith("too_large")
         ELSE IF ~PayloadWellFormed(pIn.block) THEN ParseFailsWith("invalid_json")
         ELSE IF PayloadTooDeep(pIn.block) THEN ParseFailsWith("too_deep")
         ELSE IF ~JsonDocs[Payload(pIn.block)[1]].schema_ok
         THEN ~pOut.out.ok /\ pOut.out.error \notin {"missing_json", "too_large", "invalid_json", "too_deep"}
         ELSE pOut.out.ok

\* C15 (as claimed): a payload of exactly 100,000 bytes passes the size check,
\* and one of 100,001 bytes or more fails with too_large, well-formed or not.
C15_SizeCeiling ==
    (pOut.status = "done" /\ pIn.kind = "parse" /\ HasPayload(pIn.block))
      => /\ ByteLen(Payload(pIn.block)) = MAX_AGTAG_SIZE => ~ParseFailsWith("too_large")
         /\ ByteLen(Payload(pIn.block)) >= MAX_AGTAG_SIZE + 1 => ParseFailsWith("too_large")

\* C16 (as claimed): a value whose container nesting depth is 10 passes the
\* depth check and one whose depth is 11 fails it, whatever its shape.
C16_DepthCeiling ==
    (pOut.status = "done" /\ pIn.kind = "depth")
      => /\ ContainerDepth(pIn.value) = MAX_JSON_DEPTH => pOut.out.ok
         /\ ContainerDepth(pIn.value) = MAX_JSON_DEPTH + 1 => ~pOut.out.ok

-----------------------------------------------------------------------------
\* Properties of focus and zoom

\* the focus command has run and printed a context
FocusSucceeded ==
    fIn.kind = "focus" /\ fOut.status \in {"done", "repeated"} /\ fOut.out.exit = 0

\* the context it printed
Context == fOut.out.out

\* ids of the stored symbols of the primary symbol's file
FileSymbolIds ==
    {s.id : s \in {r \in fIn.db.symbols : r.repo_path = Context.primary.repo_path}}

\* the edge types the --types value names; none named admits every type
NamedTypes == {AsName(IncludeTypes(fIn.types_filter)[k]) : k \in 1..Len(IncludeTypes(fIn.types_filter))}

\* the stored edges between symbols of that file that the filter admits
AdmittedEdges ==
    {e \in {fIn.db.edges[k] : k \in 1..Len(fIn.db.edges)} :
        /\ NamedTypes = {} \/ e.edge_type \in NamedTypes
        /\ e.src_id \in FileSymbolIds
        /\ e.dst_id \in FileSymbolIds}

\* ids joined to an id of S by an admitted edge, in either direction
Adjacent(S) ==
    {n \in FileSymbolIds :
        \E e \in AdmittedEdges : \/ e.src_id \in S /\ e.dst_id = n
                                 \/ e.dst_id \in S /\ e.src_id = n}

\* ids at undirected distance at most k from the primary symbol
RECURSIVE Within(_)
Within(k) == IF k = 0 THEN {Context.primary.id} ELSE Within(k - 1) \cup Adjacent(Within(k - 1))

DistanceIs(n, k) == n \in Within(k) /\ n \notin Within(k - 1)

\* the <<bucket, position>> pairs of the neighbors returned
Returned ==
    {p \in (1..Len(Context.neighbors)) \X (1..Cardinality(fIn.db.symbols)) :
        p[2] <= Len(Context.neighbors[p[1]][2])}

ReturnedId(p) == Context.neighbors[p[1]][2][p[2]].id

\* C17: for a focus query of depth d >= 1, every symbol of bucket depth_k has
\* 1 <= k <= d and is at shortest undirected distance exactly k from the
\* primary symbol in the graph of same-file symbols and admitted edges; no
\* symbol is returned twice, and the primary symbol is in no bucket.
C17_BucketsAreDistances ==
    (FocusSucceeded /\ fIn.depth >= 1)
      => /\ \A p \in Returned :
              /\ Context.neighbors[p[1]][1][1] = "depth_"
              /\ Context.neighbors[p[1]][1][2] \in 1..fIn.depth
              /\ DistanceIs(ReturnedId(p), Context.neighbors[p[1]][1][2])
              /\ ReturnedId(p) # Context.primary.id
         /\ \A p, q \in Returned : ReturnedId(p) = ReturnedId(q) => p = q
         /\ \A j, k \in 1..Len(Context.neighbors) :
              Context.neighbors[j][1] = Context.neighbors[k][1] => j = k

\* a query of the deepest depth tried that fills two buckets and leaves out a
\* same-file symbol one step further away
C17_Witness ==
    /\ FocusSucceeded
    /\ fIn.depth = MaxFocusDepth
    /\ Len(Context.neighbors) >= 2
    /\ Within(fIn.depth + 1) # Within(fIn.depth)

\* C18: a focus query of depth 0 that finds its symbol returns the primary
\* symbol alone: no neighbor bucket, no edge, symbols_returned 1.
C18_DepthZeroPrimaryOnly ==
    (FocusSucceeded /\ fIn.depth = 0)
      => /\ Context.neighbors = <<>>
         /\ Context.edges = <<>>
         /\ Context.stats.symbols_returned = 1
         /\ Context.primary.name = AsName(parse_handle(fIn.handle).symbol)

\* a depth-0 query on a symbol that has edges to symbols of its file
C18_Witness ==
    /\ FocusSucceeded
    /\ fIn.depth = 0
    /\ Adjacent({Context.primary.id}) # {}

\* C19 (as claimed): a second focus call with the same arguments over the
\* same stored rows prints the same output as the first, whatever the order
\* in which the store yields the rows.
C19_SameOutput == fOut.status = "repeated" => fOut.again = fOut.out

\* the handle parses, its file is recorded, and its hash is neither the
\* wildcard (in any letter case) nor the recorded hash
StaleHandle ==
    /\ parse_handle(fIn.handle).ok
    /\ str_lower(parse_handle(fIn.handle).hash) # str_lower(WILDCARD)
    /\ \E r \in fIn.db.files :
          /\ r.repo_path = parse_handle(fIn.handle).repo_path
          /\ r.db_state = "indexed"
          /\ r.file_hash # parse_handle(fIn.handle).hash

\* the command's other arguments are ones it accepts
ArgumentsAccepted ==
    IF fIn.kind = "focus" THEN fIn.depth >= 0 /\ parse_handle(fIn.handle).symbol # <<ANY>>
    ELSE fIn.level \in 0..4

\* C20 (as claimed): focus and zoom alike fail with hash_conflict, and print
\* no context or payload, on a handle whose hash is not the wildcard and
\* differs from the hash recorded for the file.
C20_StaleHandleRejected ==
    (fOut.status = "done" /\ StaleHandle /\ ArgumentsAccepted)
      => /\ fOut.out.exit = 2
         /\ "error" \in DOMAIN fOut.out.out
         /\ fOut.out.out.error = "hash_conflict"

-----------------------------------------------------------------------------
\* Properties of the patch engine

\* C8 (as claimed): applying a standard unified diff of T against T' to T
\* gives T' symbol for symbol, final newline included.
C8_RoundTrip ==
    (dOut.status = "done" /\ dIn.standard)
      => (dOut.out.ok /\ dOut.out.text = dIn.target)

\* The context and deletion lines of a hunk as the unified format delimits
\* them, by the old and new line counts of the hunk header, each compared
\* with the original line at the cursor (0-based) when it is reached.
RECURSIVE HunkLinesMatch(_, _, _, _, _, _)
HunkLinesMatch(diff_lines, original_lines, i, cursor, old_left, new_left) ==
    IF i > Len(diff_lines) \/ (old_left = 0 /\ new_left = 0) THEN [ok |-> TRUE, next |-> i]
    ELSE LET l == diff_lines[i]
             at_cursor == /\ cursor >= 0
                          /\ cursor < Len(original_lines)
                          /\ original_lines[cursor + 1] = SliceFrom(l, 1)
         IN IF StartsWith(l, <<"\\">>)
            THEN HunkLinesMatch(diff_lines, original_lines, i + 1, cursor, old_left, new_left)
            ELSE IF StartsWith(l, <<SP>>) /\ old_left > 0 /\ new_left > 0
            THEN IF at_cursor
                 THEN HunkLinesMatch(diff_lines, original_lines, i + 1, cursor + 1,
                                     old_left - 1, new_left - 1)
                 ELSE [ok |-> FALSE, next |-> i]
            ELSE IF StartsWith(l, <<"-">>) /\ old_left > 0
            THEN IF at_cursor
                 THEN HunkLinesMatch(diff_lines, original_lines, i + 1, cursor + 1,
                                     old_left - 1, new_left)
                 ELSE [ok |-> FALSE, next |-> i]
            ELSE IF StartsWith(l, <<"+">>) /\ new_left > 0
            THEN HunkLinesMatch(diff_lines, original_lines, i + 1, cursor, old_left, new_left - 1)
            ELSE [ok |-> TRUE, next |-> i]

RECURSIVE AllHunksMatch(_, _, _)
AllHunksMatch(diff_lines, original_lines, i) ==
    IF i > Len(diff_lines) THEN TRUE
    ELSE IF StartsWith(diff_lines[i], HunkMark) /\ HunkHeaderMatch(diff_lines[i]).ok
    THEN LET m == HunkHeaderMatch(diff_lines[i])
             r == HunkLinesMatch(diff_lines, original_lines, i + 1, m.a_start - 1,
                                 m.a_len, m.b_len)
         IN r.ok /\ AllHunksMatch(diff_lines, original_lines, r.next)
    ELSE AllHunksMatch(diff_lines, original_lines, i + 1)

\* C9 (as claimed): apply returns a patched text only if every context line
\* and every deletion line of every hunk equals the original line at the
\* cursor when it is reached.
C9_ReturnsOnlyIfHunkLinesMatch ==
    (dOut.status = "done" /\ dOut.out.ok)
      => AllHunksMatch(splitlines(dIn.diff_text), splitlines(dIn.original), 1)

\* the paths the new-file header lines of a diff name, a/ or b/ removed
NewFileTargets(diff_text) ==
    LET ls == splitlines(diff_text) IN
    {normalize_header(HeaderName(ls[k])) : k \in {n \in 1..Len(ls) : StartsWith(ls[n], NewHeader)}}

\* C10 (as claimed): apply returns a patched text only if the diff has a
\* new-file header and it names expected_path (as a path, a/ or b/ removed);
\* a diff naming another path fails with target_mismatch.
C10_ReturnsOnlyForExpectedTarget ==
    /\ (dOut.status = "done" /\ dOut.out.ok)
         => NewFileTargets(dIn.diff_text) = {normpath(dIn.repo_path)}
    /\ (dOut.status = "done"
        /\ \E t \in NewFileTargets(dIn.diff_text) : t # normpath(dIn.repo_path))
         => (~dOut.out.ok /\ dOut.out.error = "target_mismatch")

-----------------------------------------------------------------------------
\* Properties of the path check

RECURSIVE LeavesRoot(_, _, _)
\* walking the components from the root, some ".." steps above the root
LeavesRoot(comps, i, below) ==
    IF i > Len(comps) THEN FALSE
    ELSE IF comps[i] = <<>> \/ comps[i] = <<".">> THEN LeavesRoot(comps, i + 1, below)
    ELSE IF comps[i] = <<".", ".">>
         THEN below = 0 \/ LeavesRoot(comps, i + 1, below - 1)
    ELSE LeavesRoot(comps, i + 1, below + 1)

\* the path is absolute, or its normalized form escapes the repository root
UnsafePath(path) == (path # <<>> /\ path[1] = "/") \/ LeavesRoot(Split(path, "/"), 1, 0)

\* a stored path: no empty, "." or ".." component, and no leading "/"
StoredPathOk(path) ==
    /\ path # <<>>
    /\ \A i \in 1..Len(Split(path, "/")) :
          Split(path, "/")[i] \notin {<<>>, <<".">>, <<".", ".">>}

-----------------------------------------------------------------------------
\* Properties of the migration runner and the migrate command

\* a migrate run that applies: neither --dry-run nor --rollback
ApplyRun == mrun.pc # "none" /\ ~mrun.dry_run /\ mrun.rollback = NoVersion

\* what apply(target) has to run: available, not recorded when it started,
\* and at most the target
Due ==
    {v \in AvailableVersions :
       v \notin mrun.start.records /\ (mrun.target = NoVersion \/ v <= mrun.target)}

\* the up step failed in this run
UpFailed == mrun.result.status = "raised" /\ mrun.result.error = "migration"

\* the versions whose up step this run has completed
Completed ==
    {mrun.ran[i][2] : i \in 1..(IF UpFailed THEN Len(mrun.ran) - 1 ELSE Len(mrun.ran))}

C22_WitnessNothingPending ==
    /\ ApplyRun
    /\ Due = {}
    /\ mrun.pre.store.records = AvailableVersions
    /\ mrun.calls = 2

\* the copy of the store failed in this run
BackupFailed == mrun.result.status = "raised" /\ mrun.result.error = "OSError"

\* C23: whenever an applying migrate run has changed the store, a backup
\* copy of the store as it was before the run exists, and a run whose backup
\* copy failed leaves records, schema and version table as they were
C23_BackupBeforeChange ==
    ApplyRun =>
        /\ (mdb.store # mrun.pre.store => mrun.pre.store \in mdb.backups)
        /\ (BackupFailed => mdb.store = mrun.pre.store)

\* a migrate run with --rollback
RollbackRun == mrun.pc # "none" /\ ~mrun.dry_run /\ mrun.rollback # NoVersion

\* the version is the latest one recorded before the run
WasLatest(version) ==
    /\ version \in mrun.pre.store.records
    /\ \A w \in mrun.pre.store.records : w <= version

\* what a rollback run does: the latest version loses its record after its
\* down step, any other version fails with rollback_failed and no change
RollbackOutcome ==
    RollbackRun =>
        IF WasLatest(mrun.rollback)
        THEN /\ mrun.result.status = "ok"
             /\ mrun.ran = <<<<"down", mrun.rollback>>>>
             /\ mdb.store.records = mrun.pre.store.records \ {mrun.rollback}
             /\ mrun.rollback \notin mdb.store.schema
        ELSE /\ mrun.result.status = "error"
             /\ mrun.result.error = "rollback_failed"
             /\ mrun.ran = <<>>
             /\ mdb = mrun.pre

C24_WitnessRefused ==
    /\ RollbackRun
    /\ mrun.rollback = 3
    /\ mrun.pre.store.records = AvailableVersions
    /\ mrun.result.status = "error"

-----------------------------------------------------------------------------
\* Properties of ingest --directory

\* the files the loop has gone past
Processed == {bulk.files[i] : i \in 1..(bulk.pos - 1)}

Succeeded(file) == \E i \in 1..Len(bulk.successes) : bulk.successes[i].path = file.path

FailedIn(file) == \E i \in 1..Len(bulk.failures) : bulk.failures[i].path = file.path

\* indexed under the hash of the file's text, with the symbols of its block
IndexedAs(file) ==
    /\ StateOf(db, file.path) = "indexed"
    /\ HashOf(db, file.path) = sha256_bytes(file.bytes)
    /\ {r.name : r \in {x \in db.symbols : x.repo_path = file.path}}
         = {parse_agtag_block(split_agtag(file.bytes).block).agtag.symbols[i].name :
              i \in 1..Len(parse_agtag_block(split_agtag(file.bytes).block).agtag.symbols)}

\* C25: in a directory run every file ingested successfully earlier stays
\* indexed with its hash and symbols, every failing file is missing with no
\* symbols rows, and once the run has ended every file of the directory has
\* been processed, whichever files failed before it
C25_BulkFilesIndependent ==
    bulk.status # "none" =>
        /\ \A file \in Processed :
             /\ Succeeded(file) \/ FailedIn(file)
             /\ Succeeded(file) => IndexedAs(file)
             /\ FailedIn(file) =>
                  /\ StateOf(db, file.path) = "missing"
                  /\ \A r \in db.symbols : r.repo_path # file.path
        /\ bulk.status # "running" => bulk.pos > Len(bulk.files)

-----------------------------------------------------------------------------
\* Properties of the rebuild

\* a symbols row without the id the store gave it
WithoutId(r) == [f \in DOMAIN r \ {"id"} |-> r[f]]

\* the symbols rows of a path, ids left out
RowsOf(d, path) == {WithoutId(r) : r \in SymbolsOf(d, path)}

\* the edges at the symbols of a path, with the rows in place of their ids
TypedEdgesOf(d, path) ==
    {<<RowsOf([d EXCEPT !.symbols = {r \in @ : r.id = e.src_id}], path),
       RowsOf([d EXCEPT !.symbols = {r \in @ : r.id = e.dst_id}], path),
       e.edge_type>> : e \in EdgesOf(d, path)}

\* the index of a path built once, in an empty store, from a file text
FirstBuild(path, content) ==
    IF ~split_agtag(content).has_block THEN EmptyDb
    ELSE upsert_symbols(EmptyDb, path, parse_agtag_block(split_agtag(content).block).agtag,
                        split_agtag(content).code).db

\* C26: whenever an ingest or a patch has rebuilt the index of a path, in
\* whatever store and however often, the symbols rows (names, kinds, ranges,
\* content hashes, levels) and the typed edges between them are those of the
\* first build of that file text; the ids alone may differ
C26_RebuildIsIdempotent ==
    (pc = "idle" /\ result.status = "ok")
      => /\ RowsOf(db, call.path) = RowsOf(FirstBuild(call.path, NewContent), call.path)
         /\ Cardinality(SymbolsOf(db, call.path))
              = Cardinality(SymbolsOf(FirstBuild(call.path, NewContent), call.path))
         /\ TypedEdgesOf(db, call.path)
              = TypedEdgesOf(FirstBuild(call.path, NewContent), call.path)
         /\ Cardinality(EdgesOf(db, call.path))
              = Cardinality(EdgesOf(FirstBuild(call.path, NewContent), call.path))

\* a patch that left the text as it was, rebuilt under new ids
C26_Witness ==
    /\ call.op = "patch"
    /\ result.status = "ok"
    /\ call.stdin = D_SAME(pA)
    /\ HashOf(db, pA) = HashOf(pre.db, pA)
    /\ SymbolsOf(pre.db, pA) # {}
    /\ {r.id : r \in SymbolsOf(db, pA)} \cap {r.id : r \in SymbolsOf(pre.db, pA)} = {}
    /\ EdgesOf(db, pA) # {}

-----------------------------------------------------------------------------
\* Properties of the error kinds

\* why the metadata block of the ingested content is refused, if it is
IngestCause ==
    IF split_agtag(call.content).has_block
       /\ ~parse_agtag_block(split_agtag(call.content).block).ok
    THEN parse_agtag_block(split_agtag(call.content).block).error
    ELSE "none"

\* the diff of the patch call, applied to the file as it was
DiffOutcome ==
    apply_unified_diff_to_text(DiskRead(pre.disk, call.path),
                               DiffToApply(call.stdin, extract_final_file_payload(call.stdin)),
                               call.path)

\* the patch call failed at or after the application of its diff
FailedAtDiff ==
    /\ call.op = "patch"
    /\ result.status = "error"
    /\ result.error \notin {"unsafe_path", "not_indexed", "hash_conflict",
                            "final_file_invalid", "uncaught"}

\* the ingest call failed at or after the parse of its block
FailedAtBlock ==
    /\ call.op = "ingest"
    /\ result.status = "error"
    /\ result.error \notin {"unsafe_path", "indexed_file_rejects_full_content"}

\* the diff applies, and its result is not the final file the call asserts
FinalAssertionFails ==
    /\ DiffOutcome.ok
    /\ extract_final_file_payload(call.stdin).has
    /\ RStripSet(DiffOutcome.text, {NL})
         # RStripSet(extract_final_file_payload(call.stdin).final_file, {NL})

\* C27: a failed ingest whose block is oversized reports error kind
\* too_large and one whose block is too deep too_deep; a patch whose diff
\* fails reports the cause as its error kind (context_mismatch,
\* target_mismatch, overlapping_hunks, no_hunks), and final_mismatch when
\* the final-file assertion fails
C27_CauseIsErrorKind ==
    /\ (FailedAtBlock /\ IngestCause \in {"too_large", "too_deep"})
          => result.error = IngestCause
    /\ (FailedAtDiff /\ ~DiffOutcome.ok
          /\ DiffOutcome.error \in {"context_mismatch", "target_mismatch",
                                    "overlapping_hunks", "no_hunks"})
          => result.error = DiffOutcome.error
    /\ (FailedAtDiff /\ FinalAssertionFails) => result.error = "final_mismatch"

-----------------------------------------------------------------------------
\* Properties of the edges

\* the definitions of the indexed code that start at the row's first line and
\* carry its name
DefsOf(r, content) ==
    {n \in ast_parse(split_agtag(content).code).nodes :
       r.start_line # <<>> /\ n.lineno = r.start_line[1] /\ n.name = r.name}

\* the names the definition of the row calls (type calls) or derives from
\* (type inherits)
NamedBy(r, content, edge_type) ==
    UNION {n.targets : n \in {m \in DefsOf(r, content) :
                                m.type = (IF edge_type = "calls" THEN "FunctionDef"
                                          ELSE "ClassDef")}}

HasEdge(s, t, edge_type) ==
    [src_id |-> s.id, dst_id |-> t.id, edge_type |-> edge_type] \in db.edges

\* C28: after a successful ingest or patch of a Python file, for any two
\* different symbols s and t of the file there is a calls edge s -> t exactly
\* when the function defined at s calls the name of t, and an inherits edge
\* exactly when the class defined at s names t as a base; this for every t
\* of that name; main calling helper gives the one edge main -> helper
C28_EdgesFollowNames ==
    (pc = "idle" /\ result.status = "ok" /\ EndsWith(call.path, <<".", "p", "y">>))
      => /\ \A s, t \in SymbolsOf(db, call.path) :
              s.id # t.id =>
                \A edge_type \in {"calls", "inherits"} :
                  HasEdge(s, t, edge_type) <=> t.name \in NamedBy(s, NewContent, edge_type)
         /\ NewContent = T_TWO =>
              \E s, t \in SymbolsOf(db, call.path) :
                /\ s.name = "main"
                /\ t.name = "helper"
                /\ EdgesOf(db, call.path) = {[src_id |-> s.id, dst_id |-> t.id, edge_type |-> "calls"]}

\* no two symbols of the path have the same name
NamesDistinct(path) ==
    \A s, t \in SymbolsOf(db, path) : s.name = t.name => s.id = t.id

\* the code part of the content is not analysed: the path is not a Python
\* file, or ast.parse rejects the code
NotAnalysed(path, content) ==
    \/ ~EndsWith(path, <<".", "p", "y">>)
    \/ ~ast_parse(split_agtag(content).code).parsed

\* the content has a valid block whose ranges lie in the code part
BlockAccepted(content) ==
    /\ split_agtag(content).has_block
    /\ parse_agtag_block(split_agtag(content).block).ok
    /\ \A k \in 1..Len(parse_agtag_block(split_agtag(content).block).agtag.symbols) :
         RangeOk(parse_agtag_block(split_agtag(content).block).agtag.symbols[k],
                 Len(splitlines(split_agtag(content).code)))

\* C29: an ingest of a missing path whose block is acceptable succeeds also
\* when the code is not analysed, and whenever an ingest or a patch of
\* content that is not analysed has succeeded, the path is indexed with the
\* new hash, its symbols rows are the descriptors of the block, and no edge
\* row touches the path
C29_NoAnalysisNoEdges ==
    /\ (/\ call.op = "ingest"
        /\ pc = "idle"
        /\ result.status # "aborted"
        /\ ~UnsafePath(call.arg)
        /\ StateOf(pre.db, call.path) = "missing"
        /\ BlockAccepted(call.content)
        /\ NotAnalysed(call.path, call.content))
          => result.status = "ok"
    /\ (pc = "idle" /\ result.status = "ok" /\ NotAnalysed(call.path, NewContent))
          => /\ StateOf(db, call.path) = "indexed"
             /\ HashOf(db, call.path) = sha256_bytes(NewContent)
             /\ HashOf(db, call.path) = result.file_hash
             /\ DescribedBy(SymbolsOf(db, call.path), NewContent)
             /\ EdgesOf(db, call.path) = {}

\* a patch broke the syntax of an indexed file that had an edge
C29_Witness ==
    /\ call.op = "patch"
    /\ result.status = "ok"
    /\ call.stdin = D_BREAK(pA)
    /\ EdgesOf(pre.db, pA) # {}
    /\ EdgesOf(db, pA) = {}
    /\ Cardinality(SymbolsOf(db, pA)) = 2

\* a file that is not Python was ingested with code that calls by name
C29_WitnessNoAnalyzer ==
    /\ call.op = "ingest"
    /\ result.status = "ok"
    /\ call.path = pB
    /\ call.content = T_TWO
    /\ Cardinality(SymbolsOf(db, pB)) = 2

C29_WitnessBrokenIngest ==
    /\ call.op = "ingest"
    /\ result.status = "ok"
    /\ call.content = T_BROKEN

-----------------------------------------------------------------------------
\* Properties of content without a metadata block

\* the patch call passes every check before the rebuild, and the content it
\* writes has no metadata block
PatchesToBare ==
    /\ call.op = "patch"
    /\ pc = "idle"
    /\ result.status # "aborted"
    /\ ~UnsafePath(call.arg)
    /\ StateOf(pre.db, call.path) = "indexed"
    /\ call.hash_before = HashOf(pre.db, call.path)
    /\ DiskHas(pre.disk, call.path)
    /\ extract_final_file_payload(call.stdin).ok
    /\ DiffOutcome.ok
    /\ ~FinalAssertionFails
    /\ ~split_agtag(PatchedContent(extract_final_file_payload(call.stdin), DiffOutcome)).has_block

\* the ingest call is for content without a metadata block
IngestsBare ==
    /\ call.op = "ingest"
    /\ pc = "idle"
    /\ ~UnsafePath(call.arg)
    /\ ~split_agtag(call.content).has_block

\* C30: a patch whose resulting content has no metadata block succeeds and
\* leaves the path indexed under the new hash with no symbols, full-text or
\* edge rows; an ingest of content without a block fails and changes
\* nothing in the store, with agtag_missing when the path was missing, which
\* it then still is
C30_BareContent ==
    /\ PatchesToBare
         => /\ result.status = "ok"
            /\ StateOf(db, call.path) = "indexed"
            /\ HashOf(db, call.path) = sha256_bytes(DiskRead(disk, call.path))
            /\ HashOf(db, call.path) = result.file_hash
            /\ SymbolsOf(db, call.path) = {}
            /\ FtsOf(db, call.path) = {}
            /\ EdgesOf(db, call.path) = {}
            /\ \A e \in db.edges : \E s, t \in db.symbols : e.src_id = s.id /\ e.dst_id = t.id
    /\ IngestsBare
         => /\ result.status = "error"
            /\ db = pre.db
            /\ StateOf(pre.db, call.path) = "missing"
                 => (result.error = "agtag_missing" /\ StateOf(db, call.path) = "missing")

\* a patch took the block off a file that had symbols and an edge
C30_Witness ==
    /\ PatchesToBare
    /\ result.status = "ok"
    /\ SymbolsOf(pre.db, call.path) # {}
    /\ EdgesOf(pre.db, call.path) # {}
    /\ HashOf(db, call.path) # HashOf(pre.db, call.path)

C30_WitnessIngest ==
    /\ IngestsBare
    /\ result.status = "error"
    /\ result.error = "agtag_missing"
    /\ db.files # {}

-----------------------------------------------------------------------------
\* Properties of the order of hunks

\* the line-by-line run ends as the function does
StepwiseAgrees ==
    (dRun.at = "done" /\ dOut.status = "done") => dRun.out = dOut.out

\* is line a body line that consumes a line of the original
Consumes(line) ==
    /\ ~StartsWith(line, NoNewlineMark)
    /\ StartsWith(line, <<SP>>) \/ StartsWith(line, <<"-">>)

EndsBody(line) ==
    StartsWith(line, HunkMark) \/ StartsWith(line, OldHeader) \/ StartsWith(line, NewHeader)

\* the number of original lines the hunk body starting at diff line j
\* (1-based) consumes: its context and deletion lines up to the next header
RECURSIVE ConsumedFrom(_, _)
ConsumedFrom(diff_lines, j) ==
    IF j > Len(diff_lines) \/ EndsBody(diff_lines[j]) THEN 0
    ELSE (IF Consumes(diff_lines[j]) THEN 1 ELSE 0) + ConsumedFrom(diff_lines, j + 1)

\* the 1-based original line the k-th hunk of the run may start at: the first
\* line, or the line after the last one the hunk before consumed
CursorLine(run, k) ==
    IF k = 1 THEN 1
    ELSE run.hunks[k - 1].a_start + ConsumedFrom(run.diff_lines, run.hunks[k - 1].header + 2)

\* the run ended at the header of its k-th hunk with overlapping_hunks
RefusedAt(run, k) ==
    /\ k = Len(run.hunks)
    /\ run.at = "done"
    /\ ~run.out.ok
    /\ run.out.error = "overlapping_hunks"

\* C31: a hunk whose old-file start line precedes the cursor (the line after
\* the last line the previous hunk consumed, the first line for the first
\* hunk) ends the run with overlapping_hunks, and a hunk that starts at the
\* cursor or after it is not refused for its position
C31_HunksInOrder ==
    dRun.at # "none" =>
        \A k \in 1..Len(dRun.hunks) :
            /\ dRun.hunks[k].a_start < CursorLine(dRun, k) => RefusedAt(dRun, k)
            /\ dRun.hunks[k].a_start = CursorLine(dRun, k) => ~RefusedAt(dRun, k)

\* a second hunk was refused for starting inside the lines of the first
C31_Witness ==
    /\ dRun.at = "done"
    /\ Len(dRun.hunks) = 2
    /\ dRun.hunks[2].a_start < CursorLine(dRun, 2)
    /\ dRun.hunks[2].a_start > dRun.hunks[1].a_start
    /\ RefusedAt(dRun, 2)

\* a second hunk that starts exactly at the cursor was applied
C31_WitnessAtCursor ==
    /\ dRun.at = "done"
    /\ dRun.out.ok
    /\ Len(dRun.hunks) = 2
    /\ dRun.hunks[2].a_start = CursorLine(dRun, 2)
    /\ CursorLine(dRun, 2) > 1

-----------------------------------------------------------------------------
\* Properties of the cursor and of the lines of the result

\* the addition lines recorded at cursor k, in the order they were read;
\* at the last cursor also those recorded past it
AddedAt(run, k) ==
    LET here(a) == a.at = k \/ (k = Len(run.original_lines) /\ a.at > k)
        picked == SelectSeq(run.added, here)
    IN [j \in 1..Len(picked) |-> picked[j].line]

\* the original lines from 0-based index k on that no deletion line
\* consumed, each preceded by the additions made at its place
RECURSIVE MergedFrom(_, _)
MergedFrom(run, k) ==
    IF k > Len(run.original_lines) THEN <<>>
    ELSE AddedAt(run, k)
         \o (IF k < Len(run.original_lines) /\ k \notin run.removed
             THEN <<run.original_lines[k + 1]>> ELSE <<>>)
         \o MergedFrom(run, k + 1)

CursorNeverBack ==
    dRun.at # "none" => \A j \in 1..(Len(dRun.trace) - 1) : dRun.trace[j] <= dRun.trace[j + 1]

CursorWithinOriginal ==
    dRun.at # "none" => \A j \in 1..Len(dRun.trace) : dRun.trace[j] <= Len(dRun.original_lines)

LinesKept ==
    (dRun.at = "done" /\ dRun.out.ok) => splitlines(dRun.out.text) = MergedFrom(dRun, 0)

\* C32: while a diff is applied the cursor into the original lines never
\* moves backward and never passes the end of the original; on success the
\* lines of the result are the original lines no deletion line removed,
\* once each and in their order, with every addition line at the place of
\* its hunk
C32_CursorAndLines ==
    /\ CursorNeverBack
    /\ CursorWithinOriginal
    /\ LinesKept

-----------------------------------------------------------------------------
\* Properties of what a focus result holds

\* the name of the bucket that holds the returned neighbor p
BucketOf(p) == Context.neighbors[p[1]][1]

\* C33: for a focus query of depth d >= 1, every symbol of the primary
\* symbol's file at shortest undirected distance k from it, 1 <= k <= d, in
\* the graph of that file's symbols and the edges the type filter admits, is
\* in bucket depth_k
C33_NoneMissed ==
    (FocusSucceeded /\ fIn.depth >= 1)
      => \A n \in FileSymbolIds : \A k \in 1..fIn.depth :
            DistanceIs(n, k)
              => \E p \in Returned : ReturnedId(p) = n /\ BucketOf(p) = <<"depth_", k>>

\* a query of depth 2 under a type filter returned a symbol two steps away,
\* past a symbol that only an edge pointing at the primary symbol joins to it
C33_Witness ==
    /\ FocusSucceeded
    /\ fIn.depth = 2
    /\ NamedTypes # {}
    /\ \E n, m \in FileSymbolIds :
          /\ DistanceIs(n, 2)
          /\ DistanceIs(m, 1)
          /\ Adjacent({n}) \cap Within(1) = {m}
          /\ \A e \in AdmittedEdges : m \in {e.src_id, e.dst_id} /\ Context.primary.id \in {e.src_id, e.dst_id}
                => e.dst_id = Context.primary.id
          /\ \E p \in Returned : ReturnedId(p) = n

\* the ids of the primary symbol and of the neighbors of every bucket
ReturnedIds == {Context.primary.id} \cup {ReturnedId(p) : p \in Returned}

EdgeKey(item) == <<item.source.id, item.target.id, item.type>>

\* C34: every edge of a focus result has a type the filter admits (any type
\* when the filter names none) and joins two returned symbols, the primary
\* symbol or neighbors; no edge is listed twice
C34_EdgesAmongReturned ==
    FocusSucceeded
      => /\ \A j \in 1..Len(Context.edges) :
              /\ NamedTypes = {} \/ Context.edges[j].type \in NamedTypes
              /\ Context.edges[j].source.id \in ReturnedIds
              /\ Context.edges[j].target.id \in ReturnedIds
         /\ \A j, k \in 1..Len(Context.edges) :
              EdgeKey(Context.edges[j]) = EdgeKey(Context.edges[k]) => j = k

\* a query of depth 2 listed an edge between two neighbors of the first
\* bucket, which it read from both of its ends
C34_Witness ==
    /\ FocusSucceeded
    /\ fIn.depth = 2
    /\ \E j \in 1..Len(Context.edges) :
          /\ Context.edges[j].source.id # Context.primary.id
          /\ Context.edges[j].target.id # Context.primary.id
          /\ DistanceIs(Context.edges[j].source.id, 1)
          /\ DistanceIs(Context.edges[j].target.id, 1)

\* a filtered query listed an edge and left out a stored edge of another
\* type between two returned symbols
C34_WitnessFiltered ==
    /\ FocusSucceeded
    /\ NamedTypes # {}
    /\ Context.edges # <<>>
    /\ \E k \in 1..Len(fIn.db.edges) :
          /\ fIn.db.edges[k].edge_type \notin NamedTypes
          /\ fIn.db.edges[k].src_id \in ReturnedIds
          /\ fIn.db.edges[k].dst_id \in ReturnedIds

\* the depths k whose bucket depth_k holds a neighbor
FilledDepths == {BucketOf(p)[2] : p \in Returned}

\* C35: in every focus result symbols_returned is 1 plus the number of
\* neighbors over all buckets, edges_traversed is the length of the edge
\* list, and max_depth_reached is the largest k with a neighbor in bucket
\* depth_k, 0 when there is none, and at most the requested depth
C35_StatsAgree ==
    FocusSucceeded
      => /\ Context.stats.symbols_returned = 1 + Cardinality(Returned)
         /\ Context.stats.edges_traversed = Len(Context.edges)
         /\ FilledDepths = {} => Context.stats.max_depth_reached = 0
         /\ FilledDepths # {} =>
              /\ Context.stats.max_depth_reached \in FilledDepths
              /\ \A k \in FilledDepths : k <= Context.stats.max_depth_reached
         /\ Context.stats.max_depth_reached <= fIn.depth
         /\ \A j \in 1..Len(Context.neighbors) : Context.neighbors[j][2] # <<>>

\* a query of depth 2 that filled both buckets, one of them with two
\* neighbors, and listed edges
C35_Witness ==
    /\ FocusSucceeded
    /\ fIn.depth = 2
    /\ Context.stats.max_depth_reached = 2
    /\ Context.stats.symbols_returned = 4
    /\ Context.stats.edges_traversed >= 2

\* a query that stopped short of the requested depth
C35_WitnessShort ==
    /\ FocusSucceeded
    /\ fIn.depth = 2
    /\ Context.stats.max_depth_reached = 1
    /\ Context.stats.edges_traversed >= 1

-----------------------------------------------------------------------------
\* Properties of zoom levels

ZoomRan == fIn.kind = "zoom" /\ fOut.status = "done"

LevelKeys == <<"l0", "l1", "l2", "l3", "l4">>

\* the keys of levels 0..n
KeysUpTo(n) == {LevelKeys[k] : k \in 1..(n + 1)}

\* the level keys of the payload printed
Disclosed == DOMAIN fOut.out.out.data \cap {LevelKeys[k] : k \in 1..5}

\* lines start..end of the text, 1-based and inclusive, joined by newlines
LinesOfText(text, start, end) ==
    LET ls == splitlines(text)
    IN Join(<<NL>>, [k \in 1..(Min(end, Len(ls)) - start + 1) |-> ls[start + k - 1]])

BadLevelRefused ==
    (ZoomRan /\ fIn.level \notin 0..4)
      => (fOut.out.exit = 2 /\ fOut.out.out = [error |-> "bad_level"])

NoLevelAbove ==
    (ZoomRan /\ fIn.level \in 0..4 /\ fOut.out.exit = 0)
      => Disclosed \subseteq KeysUpTo(fIn.level)

LevelsUpTo ==
    (ZoomRan /\ fIn.level \in 0..4 /\ fOut.out.exit = 0 /\ DiskHas(fIn.disk, pA))
      => KeysUpTo(fIn.level) \subseteq Disclosed

\* level 4 is the symbol's lines of the file as it is on disk at the request
LevelFourFromDisk ==
    (ZoomRan /\ fOut.out.exit = 0 /\ "l4" \in DOMAIN fOut.out.out.data)
      => \E r \in zoom_rows(fIn.db, parse_handle(fIn.handle)) :
            fOut.out.out.data.l4 = LinesOfText(DiskRead(fIn.disk, r.repo_path),
                                               r.start_line[1], r.end_line[1])

\* C36 (as claimed): zoom with a level outside 0..4 fails with bad_level;
\* with a level n in 0..4 the payload discloses no level above n and, the
\* file being readable, every level L0 to Ln, and L4 is the symbol's lines
\* of the file on disk at the time of the request
C36_LevelsDisclosed ==
    /\ BadLevelRefused
    /\ NoLevelAbove
    /\ LevelsUpTo
    /\ LevelFourFromDisk

-----------------------------------------------------------------------------
\* Properties of the recorded hash and the file on disk

\* get_file_hash: the hash of the file's bytes, Null when there is no file
get_file_hash(dk, path) == IF DiskHas(dk, path) THEN sha256_bytes(DiskRead(dk, path)) ELSE Null

\* the status inventory prints for the files row r
inventory_status(dk, r) ==
    LET exists == DiskHas(dk, r.repo_path)
        disk_hash == get_file_hash(dk, r.repo_path)
        hash_matches == r.file_hash # <<>> /\ disk_hash # Null /\ r.file_hash = disk_hash
    IN IF r.db_state = "missing" THEN "missing_in_db"
       ELSE IF ~exists THEN "missing_on_disk"
       ELSE IF hash_matches THEN "in_sync"
       ELSE "stale_on_disk"

\* an ingest or a patch has just ended in success
JustSucceeded == call.op \in {"ingest", "patch"} /\ pc = "idle" /\ result.status = "ok"

\* C37 (as claimed): after every successful ingest and every successful
\* patch the hash recorded for the path is the hash of the file's bytes on
\* disk, and inventory reports the path as in_sync
C37_RecordedHashIsDiskHash ==
    JustSucceeded
      => /\ HashOf(db, call.path) = get_file_hash(disk, call.path)
         /\ \A r \in FileRows(db, call.path) : inventory_status(disk, r) = "in_sync"

\* the same of patches alone
PatchLeavesInSync ==
    (JustSucceeded /\ call.op = "patch")
      => /\ HashOf(db, call.path) = get_file_hash(disk, call.path)
         /\ \A r \in FileRows(db, call.path) : inventory_status(disk, r) = "in_sync"

\* the same of ingests whose content ends in exactly one newline
IngestOfNormalLeavesInSync ==
    (JustSucceeded /\ call.op = "ingest" /\ call.content = Normalized(call.content))
      => /\ HashOf(db, call.path) = get_file_hash(disk, call.path)
         /\ \A r \in FileRows(db, call.path) : inventory_status(disk, r) = "in_sync"

\* a patch call got as far as applying its diff to the text of the file
DiffWasApplied ==
    /\ call.op = "patch"
    /\ pc = "idle"
    /\ result.status # "aborted"
    /\ ~UnsafePath(call.arg)
    /\ StateOf(pre.db, call.path) = "indexed"
    /\ call.hash_before = HashOf(pre.db, call.path)
    /\ DiskHas(pre.disk, call.path)
    /\ extract_final_file_payload(call.stdin).ok

\* C38 (as claimed): the text a patch applies its diff to is the content
\* whose hash is the declared and recorded one
C38_PatchesKnownContent ==
    DiffWasApplied => sha256_bytes(DiskRead(pre.disk, call.path)) = call.hash_before

-----------------------------------------------------------------------------
\* Commands that only read: focus, zoom, inventory, migrate --dry-run

\* a reading command has run
OpenRan == odb.cmd \notin {"none", "start"}

\* the command got as far as ensure_db
ReachedEnsureDb ==
    /\ OpenRan
    /\ odb.cmd # "migrate --dry-run"
    /\ odb.out \notin {[error |-> "bad_depth"], [error |-> "handle_invalid"], [error |-> "bad_level"]}

ArgumentErrorsLeaveStore ==
    (OpenRan /\ odb.cmd # "migrate --dry-run" /\ ~ReachedEnsureDb) => odb.db = odb.pre

\* without a database file migrate --dry-run reports no_db_found, creates nothing
DryRunNeedsFile ==
    (OpenRan /\ odb.cmd = "migrate --dry-run" /\ ~odb.pre.file)
        => odb.db = odb.pre /\ odb.out = [error |-> "no_db_found"]

\* without a database file ensure_db creates it, with schema_migrations
FirstUseCreates ==
    (ReachedEnsureDb /\ ~odb.pre.file) => odb.db.file /\ odb.db.migrations_table

C39_WitnessDryRun ==
    /\ odb.cmd = "migrate --dry-run"
    /\ odb.pre.file
    /\ legacy(odb.pre.store)
    /\ odb.pre.store.records = {1}
    /\ Len(odb.out.pending_migrations) > 1
    /\ odb.out.pending_migrations[1] = 1
    /\ odb.db = odb.pre

\* zoom and inventory fail on a database with pending migrations, unchanged
C39_WitnessFails ==
    /\ odb.cmd \in {"zoom", "inventory"}
    /\ odb.pre.file
    /\ odb.out = [raised |-> "RuntimeError"]
    /\ odb.db = odb.pre

\* inventory in a directory without a database creates one
C39_WitnessFirstUse ==
    /\ odb.cmd = "inventory"
    /\ ~odb.pre.file
    /\ odb.db.file
    /\ odb.db.store.records # {}

-----------------------------------------------------------------------------
\* The rows of other paths

\* the files, symbols and edges rows of one path
StoredFor(d, path) ==
    [files |-> FileRows(d, path), symbols |-> SymbolsOf(d, path), edges |-> EdgesOf(d, path)]

\* C40: an ingest or patch of path p, at every commit point of the call and
\* whether it succeeds, fails or is aborted, leaves the files, symbols and
\* edges rows of every other path as they were when the call started
C40_OtherPathsUntouched ==
    call.op \in {"ingest", "patch"}
    => \A q \in Paths \ {call.path} : StoredFor(db, q) = StoredFor(pre.db, q)

\* a successful call rewrote its own path's rows while another path held a
\* file row, symbols and an edge
C40_Witness ==
    /\ JustSucceeded
    /\ StoredFor(db, call.path).symbols # StoredFor(pre.db, call.path).symbols
    /\ StoredFor(pre.db, call.path).symbols # {}
    /\ \E q \in Paths \ {call.path} :
          /\ StoredFor(pre.db, q).files # {}
          /\ StoredFor(pre.db, q).symbols # {}
          /\ StoredFor(pre.db, q).edges # {}
          /\ StoredFor(db, q) = StoredFor(pre.db, q)

\* a failed call while another path held rows
C40_WitnessFailed ==
    /\ call.op \in {"ingest", "patch"}
    /\ pc = "idle"
    /\ result.status = "error"
    /\ \E q \in Paths \ {call.path} :
          /\ StoredFor(pre.db, q).symbols # {}
          /\ StoredFor(db, q) = StoredFor(pre.db, q)

====
